---- MODULE Spec2Model ----
(***************************************************************************)
(* A model of mealieah: the ingredient-mapping store (save / delete), the  *)
(* cart-fill handler and the retailer client (AHClient) with its anonymous *)
(* and user token handling.                                                *)
(*                                                                         *)
(* Python values are encoded as follows.  A nullable value (int | None,    *)
(* str | None) is a sequence of length at most one: None is <<>> and a     *)
(* value v is <<v>>.  Non-nullable strings are TLA+ strings.  A request    *)
(* handler that awaits an HTTP response is split at its await points; the  *)
(* code between two awaits is one action.                                  *)
(***************************************************************************)
EXTENDS Integers, Sequences, FiniteSets, TLC

VARIABLES
    store,      \* table mealieah_ingredient_mappings, rows in insertion order
    txn,        \* per request: the open save transaction (select done, commit pending)
    settings,   \* table mealieah_settings restricted to the two token keys
    client,     \* the process-wide AHClient instance ah_client
    pc,         \* per request: the await point the handler is suspended at
    loc,        \* per request: the handler's local variables
    http,       \* per request: the HTTP requests the current call has issued
    out         \* per request: the outcome of the last finished call

vars == <<store, txn, settings, client, pc, loc, http, out>>

(***************************************************************************)
(* Bounds of the model.                                                    *)
(***************************************************************************)
MaxQty == 2

(***************************************************************************)
(* Python values.                                                          *)
(***************************************************************************)
None == <<>>

Some(v) == <<v>>

\* Python truthiness of a str | None value: None and "" are falsy.
Truthy(o) == o # None /\ o[1] # ""

(***************************************************************************)
(* The mapping table.                                                      *)
(***************************************************************************)
Procs == {1, 2}

\* The ingredient lines that exist: reference ids are unique per recipe only.
Keys == {<<"r1", "i1">>, <<"r1", "i2">>, <<"r2", "i1">>}

Statuses == {"unmapped", "mapped", "skipped"}

\* The product part of a save form: the product id and its snapshot fields.
NoProduct ==
    [ah_product_id |-> None, ah_product_name |-> None,
     ah_product_image_url |-> None, ah_product_unit_size |-> None,
     ah_product_price |-> None]

Onion ==
    [ah_product_id |-> Some(100), ah_product_name |-> Some("ui"),
     ah_product_image_url |-> Some("ui.jpg"), ah_product_unit_size |-> Some("1 kg"),
     ah_product_price |-> Some("1.29")]

Milk ==
    [ah_product_id |-> Some(200), ah_product_name |-> Some("melk"),
     ah_product_image_url |-> Some("melk.jpg"), ah_product_unit_size |-> Some("1 l"),
     ah_product_price |-> Some("0.99")]

\* The text part of a save form: the ingredient text and the recipe's name.
OnionText == [ingredient_display |-> "2 uien", recipe_name |-> "soep"]

MilkText == [ingredient_display |-> "1 l melk", recipe_name |-> "pap"]

\* The arguments of POST /api/mapping.
SaveForm(key, status, text, product, qty) ==
    [recipe_slug |-> key[1],
     recipe_name |-> text.recipe_name,
     ingredient_reference_id |-> key[2],
     ingredient_display |-> text.ingredient_display,
     status |-> status,
     ah_product_id |-> product.ah_product_id,
     ah_product_name |-> product.ah_product_name,
     ah_product_image_url |-> product.ah_product_image_url,
     ah_product_unit_size |-> product.ah_product_unit_size,
     ah_product_price |-> product.ah_product_price,
     ah_quantity |-> qty]

\* The forms the store specification submits: every status, for a line without
\* a product and for a line with a product in the smallest and the largest
\* quantity.
StoreForms ==
    { SaveForm(k, s, c[1], c[2], c[3]) :
        k \in Keys, s \in Statuses,
        c \in {<<MilkText, NoProduct, 1>>, <<OnionText, Onion, 1>>,
               <<OnionText, Onion, MaxQty>>} }

\* select(IngredientMapping).where(recipe_slug == .., ingredient_reference_id == ..):
\* the positions of the matching rows.
Matching(rows, slug, ref) ==
    { i \in 1..Len(rows) :
        rows[i].recipe_slug = slug /\ rows[i].ingredient_reference_id = ref }

\* A faulty variant of UpdateRow: the quantity of the form is not written to the row.
UpdateRow_KeepsQuantity(row, form) ==
    [form EXCEPT !.ah_quantity = row.ah_quantity]

\* The branch "if existing": every column of the form is assigned to the row.
UpdateRow(row, form) ==
    [row EXCEPT !.status = form.status,
                !.ingredient_display = form.ingredient_display,
                !.recipe_name = form.recipe_name,
                !.ah_product_id = form.ah_product_id,
                !.ah_product_name = form.ah_product_name,
                !.ah_product_image_url = form.ah_product_image_url,
                !.ah_product_unit_size = form.ah_product_unit_size,
                !.ah_product_price = form.ah_product_price,
                !.ah_quantity = form.ah_quantity]

\* The columns the branch "if existing" assigns (lines 262-270).
AssignedColumns ==
    {"status", "ingredient_display", "recipe_name", "ah_product_id", "ah_product_name",
     "ah_product_image_url", "ah_product_unit_size", "ah_product_price", "ah_quantity"}

\* db.commit() after the branch "if existing": the session's UPDATE sets the
\* columns whose assigned value differs from the value the select loaded, on
\* the row as the table holds it at the commit.
FlushRow(row, loaded, form) ==
    [c \in DOMAIN row |->
        IF c \in AssignedColumns /\ form[c] # loaded[c] THEN form[c] ELSE row[c]]

\* The branch "else": db.add(IngredientMapping(...)).
InsertRow(rows, form) == Append(rows, form)

RemoveAt(rows, i) == [j \in 1..(Len(rows) - 1) |-> IF j < i THEN rows[j] ELSE rows[j + 1]]

\* save_mapping, as one request runs it when no other request interleaves.
\* scalar_one_or_none() raises when more than one row matches: the handler
\* then ends in an error and writes nothing.
SaveResult(rows, form) ==
    LET m == Matching(rows, form.recipe_slug, form.ingredient_reference_id)
    IN  IF Cardinality(m) > 1 THEN rows
        ELSE IF m # {} THEN
            LET i == CHOOSE x \in m : TRUE
            IN  [rows EXCEPT ![i] = UpdateRow(rows[i], form)]
        ELSE InsertRow(rows, form)

\* A faulty variant of DeleteResult: every row of the recipe is removed.
DeleteResult_WholeRecipe(rows, slug, ref) ==
    SelectSeq(rows, LAMBDA r : r.recipe_slug # slug)

\* delete_mapping.
DeleteResult(rows, slug, ref) ==
    LET m == Matching(rows, slug, ref)
    IN  IF Cardinality(m) = 1 THEN RemoveAt(rows, CHOOSE x \in m : TRUE) ELSE rows

(***************************************************************************)
(* The retailer client, src/app/clients/ah.py.                             *)
(***************************************************************************)
\* AHClient.__init__.
ClientInit ==
    [anonymous_token |-> None, user_token |-> None,
     user_refresh_token |-> None, on_tokens_updated |-> None]

\* A callback closure: "save" is fill_cart's _save_tokens bound to the database
\* session of request `owner`; "record" is a caller's plain recording function.
Callback(kind, owner) == [kind |-> kind, owner |-> owner]

\* The events a call appends to its request's log, in program order.
CartRequest(bearer, body) == [ev |-> "cart", bearer |-> bearer, items |-> body]

RefreshRequest(token) == [ev |-> "refresh", refreshToken |-> token]

AuthRequest == [ev |-> "auth"]

SearchRequest(bearer) == [ev |-> "search", bearer |-> bearer]

\* The answer to a request; `to` names the request's kind.
Answer(to, resp) == [ev |-> "answer", to |-> to, resp |-> resp]

MemoryUpdate(access, refresh) == [ev |-> "assign", access |-> access, refresh |-> refresh]

CallbackCall(cb, access, refresh) ==
    [ev |-> "callback", fn |-> cb, access |-> access, refresh |-> refresh]

\* The local variables of an idle request.
LocIdle ==
    [call |-> "", caller |-> "", bearer |-> None, body |-> <<>>, cart |-> <<>>,
     access_token |-> "", refresh_token |-> "", args |-> <<>>, result |-> <<>>]

\* The outcome of a call: a return value or a raised exception.
NoOutcome == [raised |-> FALSE, ok |-> FALSE, error |-> "", items_added |-> 0]

MsgNoToken == "AH token niet ingesteld. Ga naar Instellingen."

MsgExpired == "AH token verlopen en refresh mislukt. Voer een nieuw refresh token in via Instellingen."

MsgHttp == "HTTPStatusError"

MsgTransport == "TransportError"

MsgKey == "KeyError"

MsgJson == "JSONDecodeError"

MsgAttribute == "AttributeError"

\* add_to_cart ends: its caller is the test harness (the exception propagates)
\* or fill_cart (lines 462-468: the exception becomes ok=False with its text).
Raises(caller, msg) ==
    IF caller = "fill_cart"
    THEN [raised |-> FALSE, ok |-> FALSE, error |-> msg, items_added |-> 0]
    ELSE [raised |-> TRUE, ok |-> FALSE, error |-> msg, items_added |-> 0]

Returns(caller, cart) ==
    [raised |-> FALSE, ok |-> TRUE, error |-> "",
     items_added |-> IF caller = "fill_cart" THEN Len(cart) ELSE 0]

\* cart_items of add_to_cart.
CartItems(items) ==
    [i \in 1..Len(items) |->
        [originCode |-> "PRD", productId |-> items[i].product_id,
         quantity |-> items[i].quantity, type |-> "SHOPPABLE"]]

\* A faulty variant of SetTokens: a token pair held in memory is not replaced.
SetTokens_KeepsHeld(cl, access, refresh, cb) ==
    IF cl.user_token # <<>> /\ cl.user_token # <<"">>
    THEN [cl EXCEPT !.on_tokens_updated = cb]
    ELSE [cl EXCEPT !.user_token = access, !.user_refresh_token = refresh,
                    !.on_tokens_updated = cb]

\* set_user_tokens.
SetTokens(cl, access, refresh, cb) ==
    [cl EXCEPT !.user_token = access, !.user_refresh_token = refresh,
               !.on_tokens_updated = cb]

\* An HTTP response: the transport failed, or a status came back.  The body
\* of an answer is a JSON document, except for 204 (no content).
Transport == [net |-> "error", status |-> 0, body |-> "none"]

Status(n) == [net |-> "ok", status |-> n, body |-> IF n = 204 THEN "empty" ELSE "json"]

\* An answer with an empty body.
NoBody(n) == [net |-> "ok", status |-> n, body |-> "empty"]

\* resp.raise_for_status() passes: the status is one of 200..299.
IsSuccess(resp) == resp.net = "ok" /\ resp.status >= 200 /\ resp.status <= 299

\* resp.json() returns.
HasJson(resp) == resp.body = "json"

CartResponses ==
    {Transport, Status(200), NoBody(200), Status(204), Status(302), Status(401), Status(500)}

\* A faulty variant of AddToCartStart: the guard on the access token is missing.
AddToCartStart_NoGuard(cl, items) ==
    [raised |-> FALSE, bearer |-> cl.user_token, body |-> CartItems(items),
     log |-> <<CartRequest(cl.user_token, CartItems(items))>>]

\* add_to_cart up to its first await (lines 126-149): the guard on the access
\* token, the headers and the body, and the first PATCH of the cart.
AddToCartStart(cl, items) ==
    IF ~Truthy(cl.user_token)
    THEN [raised |-> TRUE, bearer |-> None, body |-> <<>>, log |-> <<>>]
    ELSE [raised |-> FALSE, bearer |-> cl.user_token, body |-> CartItems(items),
          log |-> <<CartRequest(cl.user_token, CartItems(items))>>]

\* _set_setting on one of the token keys (the rows exist since the migrations).
SetSetting(st, key, value) == [st EXCEPT ![key] = value]

\* _get_setting.
GetSetting(st, key) == st[key]

SettingsInit == [k \in {"ah_user_token", "ah_refresh_token"} |-> ""]

\* fill_cart's _save_tokens: two _set_setting calls, each with its own commit.
\* `fail` says which commit, if any, raises.
SaveTokens(st, access, refresh, fail) ==
    IF fail = "first" THEN st
    ELSE IF fail = "second" THEN SetSetting(st, "ah_user_token", access)
    ELSE SetSetting(SetSetting(st, "ah_user_token", access), "ah_refresh_token", refresh)

CommitFailures == {"none", "first", "second"}

\* The body of a refresh answer: the keys the JSON object holds.
RefreshBody(access, refresh) == [access_token |-> access, refresh_token |-> refresh]

RefreshAnswer(resp, body) ==
    [net |-> resp.net, status |-> resp.status, body |-> resp.body, json |-> body]

\* The token values the retailer hands out on a refresh.
FreshAccess == {"A1", "A2"}

FreshRefresh == {"R1", "R2"}

RefreshResponses ==
    {RefreshAnswer(Transport, RefreshBody(None, None)),
     RefreshAnswer(Status(401), RefreshBody(None, None)),
     RefreshAnswer(Status(200), RefreshBody(None, None)),
     RefreshAnswer(NoBody(200), RefreshBody(None, None)),
     RefreshAnswer(Status(302), RefreshBody(Some("A1"), Some("R1")))}
    \cup {RefreshAnswer(Status(200), RefreshBody(Some(a), None)) : a \in FreshAccess}
    \cup {RefreshAnswer(Status(200), RefreshBody(Some(a), Some(r))) :
            a \in FreshAccess, r \in FreshRefresh}

\* A faulty variant of RefreshFinish: the new access token is not taken over in memory.
RefreshFinish_KeepsAccess(cl, st, resp, fail) ==
    IF ~IsSuccess(resp) \/ resp.json.access_token = None \/ resp.json.refresh_token = None
    THEN [client |-> cl, settings |-> st, log |-> <<>>, refreshed |-> FALSE]
    ELSE [client |-> [cl EXCEPT !.user_refresh_token = resp.json.refresh_token],
          settings |-> st,
          log |-> <<MemoryUpdate(resp.json.access_token[1], resp.json.refresh_token[1])>>,
          refreshed |-> TRUE]

\* A faulty variant of RefreshFinish: a failed refresh is reported as a success.
RefreshFinish_AlwaysTrue(cl, st, resp, fail) ==
    [client |-> cl, settings |-> st, log |-> <<>>, refreshed |-> TRUE]

\* _refresh_user_token from the answer of the refresh endpoint on (lines 69-81):
\* the client, the settings and the log after it, and the value it returns.
RefreshFinish(cl, st, resp, fail) ==
    IF ~IsSuccess(resp) \/ ~HasJson(resp) \/ resp.json.access_token = None
    THEN [client |-> cl, settings |-> st, log |-> <<>>, refreshed |-> FALSE]
    ELSE IF resp.json.refresh_token = None
    THEN [client |-> [cl EXCEPT !.user_token = resp.json.access_token],
          settings |-> st, log |-> <<>>, refreshed |-> FALSE]
    ELSE LET cl2 == [cl EXCEPT !.user_token = resp.json.access_token,
                               !.user_refresh_token = resp.json.refresh_token]
             a == resp.json.access_token[1]
             r == resp.json.refresh_token[1]
             cb == cl.on_tokens_updated
         IN  IF cb = None
             THEN [client |-> cl2, settings |-> st,
                   log |-> <<MemoryUpdate(a, r)>>, refreshed |-> TRUE]
             ELSE IF cb[1].kind = "record"
             THEN [client |-> cl2, settings |-> st,
                   log |-> <<MemoryUpdate(a, r), CallbackCall(cb[1], a, r)>>,
                   refreshed |-> TRUE]
             ELSE [client |-> cl2, settings |-> SaveTokens(st, a, r, fail),
                   log |-> <<MemoryUpdate(a, r), CallbackCall(cb[1], a, r)>>,
                   refreshed |-> (fail = "none")]

\* The commit failures that can happen for this answer: only a "save" callback
\* that is actually called commits.
FailuresFor(cl, resp) ==
    IF /\ IsSuccess(resp) /\ HasJson(resp)
       /\ resp.json.access_token # None /\ resp.json.refresh_token # None
       /\ cl.on_tokens_updated # None /\ cl.on_tokens_updated[1].kind = "save"
    THEN CommitFailures ELSE {"none"}

\* The call ends: the outcome is visible until the request slot is released.
Finish(p, outcome) ==
    /\ pc' = [pc EXCEPT ![p] = "done"]
    /\ out' = [out EXCEPT ![p] = outcome]

\* The answer to the first PATCH of the cart (lines 145-167).
CartResponse1(p, resp) ==
    /\ pc[p] = "cart1"
    /\ IF resp.net = "error"
       THEN /\ Finish(p, Raises(loc[p].caller, MsgTransport))
            /\ http' = [http EXCEPT ![p] = Append(@, Answer("cart", resp))]
       ELSE IF resp.status = 401
       THEN IF ~Truthy(client.user_refresh_token)
            THEN /\ Finish(p, Raises(loc[p].caller, MsgExpired))
                 /\ http' = [http EXCEPT ![p] = Append(@, Answer("cart", resp))]
            ELSE /\ pc' = [pc EXCEPT ![p] = "refresh"]
                 /\ http' = [http EXCEPT ![p] =
                                @ \o <<Answer("cart", resp),
                                       RefreshRequest(client.user_refresh_token)>>]
                 /\ UNCHANGED out
       ELSE IF ~IsSuccess(resp)
       THEN /\ Finish(p, Raises(loc[p].caller, MsgHttp))
            /\ http' = [http EXCEPT ![p] = Append(@, Answer("cart", resp))]
       ELSE IF ~HasJson(resp)
       THEN /\ Finish(p, Raises(loc[p].caller, MsgJson))
            /\ http' = [http EXCEPT ![p] = Append(@, Answer("cart", resp))]
       ELSE /\ Finish(p, Returns(loc[p].caller, loc[p].cart))
            /\ http' = [http EXCEPT ![p] = Append(@, Answer("cart", resp))]
    /\ UNCHANGED <<store, txn, settings, client, loc>>

\* The answer of the refresh endpoint (lines 69-81) up to the end of the
\* "async with" block of _refresh_user_token: a refresh that succeeded waits
\* there for the connection to close before it returns True; one that failed
\* touches nothing shared any more, and add_to_cart raises (lines 154-158).
RefreshResponse(p, resp, fail) ==
    /\ pc[p] = "refresh"
    /\ fail \in FailuresFor(client, resp)
    /\ LET r == RefreshFinish(client, settings, resp, fail)
       IN  /\ client' = r.client
           /\ settings' = r.settings
           /\ http' = [http EXCEPT ![p] = @ \o <<Answer("refresh", resp)>> \o r.log]
           /\ IF r.refreshed
              THEN /\ pc' = [pc EXCEPT ![p] = "retry"]
                   /\ UNCHANGED out
              ELSE Finish(p, Raises(loc[p].caller, MsgExpired))
    /\ UNCHANGED <<store, txn, loc>>

\* A faulty variant of RetryCart: the retry goes out with the header of the first request.
RetryCart_OldHeader(p) ==
    /\ pc[p] = "retry"
    /\ pc' = [pc EXCEPT ![p] = "cart2"]
    /\ http' = [http EXCEPT ![p] = Append(@, CartRequest(loc[p].bearer, loc[p].body))]
    /\ UNCHANGED <<store, txn, settings, client, out, loc>>

\* add_to_cart after _refresh_user_token has returned True (lines 159-164):
\* the header is built from the access token the client holds now, and the
\* PATCH is sent again.
RetryCart(p) ==
    /\ pc[p] = "retry"
    /\ pc' = [pc EXCEPT ![p] = "cart2"]
    /\ loc' = [loc EXCEPT ![p].bearer = client.user_token]
    /\ http' = [http EXCEPT ![p] = Append(@, CartRequest(client.user_token, loc[p].body))]
    /\ UNCHANGED <<store, txn, settings, client, out>>

\* A faulty variant of CartResponse2: a 401 on the retry sends the request once more.
CartResponse2_Retrying(p, resp) ==
    /\ pc[p] = "cart2"
    /\ IF resp.net = "ok" /\ resp.status = 401
       THEN /\ http' = [http EXCEPT ![p] =
                           @ \o <<Answer("cart", resp), CartRequest(loc[p].bearer, loc[p].body)>>]
            /\ UNCHANGED <<pc, out>>
       ELSE /\ Finish(p, IF resp.net = "error" THEN Raises(loc[p].caller, MsgTransport)
                          ELSE IF ~IsSuccess(resp) THEN Raises(loc[p].caller, MsgHttp)
                          ELSE IF ~HasJson(resp) THEN Raises(loc[p].caller, MsgJson)
                          ELSE Returns(loc[p].caller, loc[p].cart))
            /\ http' = [http EXCEPT ![p] = Append(@, Answer("cart", resp))]
    /\ UNCHANGED <<store, txn, settings, client, loc>>

\* The answer to the second PATCH of the cart (lines 165-167): no further
\* retry.
CartResponse2(p, resp) ==
    /\ pc[p] = "cart2"
    /\ IF resp.net = "error"
       THEN Finish(p, Raises(loc[p].caller, MsgTransport))
       ELSE IF ~IsSuccess(resp)
       THEN Finish(p, Raises(loc[p].caller, MsgHttp))
       ELSE IF ~HasJson(resp)
       THEN Finish(p, Raises(loc[p].caller, MsgJson))
       ELSE Finish(p, Returns(loc[p].caller, loc[p].cart))
    /\ http' = [http EXCEPT ![p] = Append(@, Answer("cart", resp))]
    /\ UNCHANGED <<store, txn, settings, client, loc>>

\* The response has been delivered: the request slot is free again.
Return(p) ==
    /\ pc[p] = "done"
    /\ pc' = [pc EXCEPT ![p] = "idle"]
    /\ loc' = [loc EXCEPT ![p] = LocIdle]
    /\ http' = [http EXCEPT ![p] = <<>>]
    /\ out' = [out EXCEPT ![p] = NoOutcome]
    /\ UNCHANGED <<store, txn, settings, client>>

(***************************************************************************)
(* Catalogue search with the anonymous token.                              *)
(***************************************************************************)
AnonTokens == {"T1", "T2"}

AuthAnswer(resp, token) ==
    [net |-> resp.net, status |-> resp.status, body |-> resp.body,
     json |-> [access_token |-> token]]

AuthResponses ==
    {AuthAnswer(Transport, None), AuthAnswer(Status(500), None), AuthAnswer(Status(200), None),
     AuthAnswer(Status(204), None), AuthAnswer(NoBody(200), None),
     AuthAnswer(Status(302), Some("T1"))}
    \cup {AuthAnswer(Status(200), Some(t)) : t \in AnonTokens}

MsgType == "TypeError"

\* JSON values as json() hands them out: null, a boolean, an integer, a
\* decimal number given in hundredths, a string, a list, and an object given
\* by its key-value pairs in the order of the text.
Null == [json |-> "null"]

Bool(b) == [json |-> "bool", b |-> b]

Number(n) == [json |-> "int", n |-> n]

Cents(c) == [json |-> "float", c |-> c]

Text(s) == [json |-> "string", s |-> s]

Array(items) == [json |-> "list", items |-> items]

Object(pairs) == [json |-> "object", pairs |-> pairs]

SearchAnswer(resp, data) ==
    [net |-> resp.net, status |-> resp.status, body |-> resp.body, json |-> data]

\* dict.get(key, default): the value of the key, which is the last one the
\* text gives it; the default stands in for a key that is not there.
Get(object, key, default) ==
    IF \E i \in 1..Len(object.pairs) : object.pairs[i][1] = key
    THEN object.pairs[CHOOSE i \in 1..Len(object.pairs) :
                         /\ object.pairs[i][1] = key
                         /\ \A j \in (i + 1)..Len(object.pairs) : object.pairs[j][1] # key][2]
    ELSE default

\* The truth value Python gives a value: None, False, zero and everything
\* empty are false.
Truth(value) ==
    CASE value.json = "null" -> FALSE
      [] value.json = "bool" -> value.b
      [] value.json = "int" -> value.n # 0
      [] value.json = "float" -> value.c # 0
      [] value.json = "string" -> value.s # ""
      [] value.json = "list" -> value.items # <<>>
      [] value.json = "object" -> value.pairs # <<>>

\* Lines 114-118: the exception that reading the url of the first image
\* raises, "" when it raises none.  images[0] is the first item of a list and
\* the first character of a string; an object has no key 0; a number and a
\* boolean have no items; get is a method of objects only.
ImageError(product) ==
    LET images == Get(product, "images", Null)
    IN  IF ~Truth(images) THEN ""
        ELSE CASE images.json = "list" ->
                      IF images.items[1].json = "object" THEN "" ELSE MsgAttribute
               [] images.json = "string" -> MsgAttribute
               [] images.json = "object" -> MsgKey
               [] images.json \in {"bool", "int", "float"} -> MsgType

\* Lines 109-120: the exception that building the entry of one item of
\* "products" raises, "" when it raises none.  Of the keys of the entry only
\* "image_url" can raise once the item is an object.
ProductError(product) ==
    IF product.json # "object" THEN MsgAttribute ELSE ImageError(product)

\* Line 107, `for product in ...`: the values the loop takes.  A list gives
\* its items, a string its characters and an object its keys, strings both,
\* which stand here as the string or key they come from; nothing else can be
\* iterated.
Iterated(value) ==
    CASE value.json = "list" -> value.items
      [] value.json = "string" -> [i \in 1..Len(value.s) |-> Text(value.s)]
      [] value.json = "object" -> [i \in 1..Len(value.pairs) |-> Text(value.pairs[i][1])]

\* search_products from the answer to a search request on (lines 103-123):
\* the exception raised (that of the first item that raises one), or the ids
\* of the products returned.
SearchResult(resp) ==
    IF resp.net = "error" THEN [raised |-> TRUE, error |-> MsgTransport, ids |-> <<>>]
    ELSE IF ~IsSuccess(resp) THEN [raised |-> TRUE, error |-> MsgHttp, ids |-> <<>>]
    ELSE IF ~HasJson(resp) THEN [raised |-> TRUE, error |-> MsgJson, ids |-> <<>>]
    ELSE IF resp.json.json # "object"
    THEN [raised |-> TRUE, error |-> MsgAttribute, ids |-> <<>>]
    ELSE LET products == Get(resp.json, "products", Array(<<>>))
         IN  IF products.json \notin {"list", "string", "object"}
             THEN [raised |-> TRUE, error |-> MsgType, ids |-> <<>>]
             ELSE LET items == Iterated(products)
                      bad == {i \in 1..Len(items) : ProductError(items[i]) # ""}
                  IN  IF bad # {}
                      THEN [raised |-> TRUE,
                            error |-> ProductError(items[CHOOSE i \in bad :
                                                            \A j \in bad : i <= j]),
                            ids |-> <<>>]
                      ELSE [raised |-> FALSE, error |-> "",
                            ids |-> [i \in 1..Len(items) |->
                                        Get(items[i], "webshopId", Null)]]

\* The products of src/tests/test_ah_client.py.
Kip ==
    Object(<<<<"webshopId", Number(12345)>>, <<"title", Text("AH Kipfilet")>>,
             <<"salesUnitSize", Text("300 g")>>, <<"currentPrice", Cents(499)>>,
             <<"images", Array(<<Object(<<<<"url", Text("12345.jpg")>>>>)>>)>>,
             <<"brand", Text("AH")>>>>)

Bio ==
    Object(<<<<"webshopId", Number(67890)>>, <<"title", Text("AH Biologisch kipfilet")>>,
             <<"salesUnitSize", Text("250 g")>>, <<"priceBeforeBonus", Cents(649)>>,
             <<"currentPrice", Cents(549)>>, <<"images", Array(<<>>)>>,
             <<"brand", Text("AH Biologisch")>>>>)

\* A product with the images given and no other key but its id.
WithImages(id, images) == Object(<<<<"webshopId", Number(id)>>, <<"images", images>>>>)

\* What "products" is in the answers: lists of products that can be read,
\* values that hold no product at all, and values the loop fails on.
ProductLists ==
    {Array(<<>>), Array(<<Kip, Bio>>), Text(""), Object(<<>>),
     Array(<<Object(<<>>), WithImages(1, Null), WithImages(2, Object(<<>>)),
             WithImages(3, Text("")), WithImages(4, Number(0)),
             WithImages(5, Array(<<Object(<<>>), Null>>))>>),
     Null, Number(3), Bool(TRUE), Text("ab"), Object(<<<<"kip", Kip>>>>),
     Array(<<Kip, Null>>), Array(<<Text("kip")>>),
     Array(<<WithImages(6, Array(<<Null>>))>>),
     Array(<<WithImages(7, Text("a.jpg"))>>),
     Array(<<WithImages(8, Object(<<<<"url", Text("a.jpg")>>>>))>>),
     Array(<<WithImages(9, Number(1)), Null>>)}

\* The bodies of the answers to a search request: values that are no
\* object, an object without "products", and the objects with "products".
SearchBodies ==
    {Array(<<>>), Null, Text("products"), Object(<<>>),
     Object(<<<<"products", Null>>, <<"products", Array(<<Kip>>)>>>>)}
    \cup {Object(<<<<"products", products>>>>) : products \in ProductLists}

SearchResponses ==
    {Transport, NoBody(200), Status(302), Status(401), Status(500)}
    \cup {SearchAnswer(Status(200), data) : data \in SearchBodies}

\* A faulty variant of CachedAnonymous: the cache is never used.
CachedAnonymous_Never(cl) == None

\* _get_anonymous_token up to its await: the cached token, or None when the
\* identity endpoint has to be asked.
CachedAnonymous(cl) == IF Truthy(cl.anonymous_token) THEN cl.anonymous_token ELSE None

\* search_products up to its first await.
SearchEnter(p) ==
    /\ out' = [out EXCEPT ![p] = NoOutcome]
    /\ IF CachedAnonymous(client) # None
       THEN /\ pc' = [pc EXCEPT ![p] = "search1"]
            /\ loc' = [loc EXCEPT ![p] = [LocIdle EXCEPT !.call = "search_products",
                                                        !.bearer = CachedAnonymous(client)]]
            /\ http' = [http EXCEPT ![p] = <<SearchRequest(CachedAnonymous(client))>>]
       ELSE /\ pc' = [pc EXCEPT ![p] = "auth1"]
            /\ loc' = [loc EXCEPT ![p] = [LocIdle EXCEPT !.call = "search_products"]]
            /\ http' = [http EXCEPT ![p] = <<AuthRequest>>]

\* A faulty variant of AuthResponse: the fetched token is used but not cached.
AuthResponse_NoCache(p, resp) ==
    /\ pc[p] \in {"auth1", "auth2"}
    /\ IF ~IsSuccess(resp) \/ ~HasJson(resp) \/ resp.json.access_token = None
       THEN /\ Finish(p, Raises("", MsgHttp))
            /\ UNCHANGED loc
       ELSE /\ pc' = [pc EXCEPT ![p] = IF pc[p] = "auth1" THEN "send1" ELSE "send2"]
            /\ loc' = [loc EXCEPT ![p].bearer = resp.json.access_token]
            /\ UNCHANGED out
    /\ http' = [http EXCEPT ![p] = Append(@, Answer("auth", resp))]
    /\ UNCHANGED <<store, txn, settings, client>>

\* _get_anonymous_token from the answer of the identity endpoint to the end
\* of its "async with" block (lines 36-40): the token is cached, and the
\* call waits for the connection to close before it returns the token.
AuthResponse(p, resp) ==
    /\ pc[p] \in {"auth1", "auth2"}
    /\ IF ~IsSuccess(resp)
       THEN /\ Finish(p, Raises("", IF resp.net = "error" THEN MsgTransport ELSE MsgHttp))
            /\ UNCHANGED <<client, loc>>
       ELSE IF ~HasJson(resp)
       THEN /\ Finish(p, Raises("", MsgJson))
            /\ UNCHANGED <<client, loc>>
       ELSE IF resp.json.access_token = None
       THEN /\ Finish(p, Raises("", MsgKey))
            /\ UNCHANGED <<client, loc>>
       ELSE /\ client' = [client EXCEPT !.anonymous_token = resp.json.access_token]
            /\ pc' = [pc EXCEPT ![p] = IF pc[p] = "auth1" THEN "send1" ELSE "send2"]
            /\ loc' = [loc EXCEPT ![p].bearer = resp.json.access_token]
            /\ UNCHANGED out
    /\ http' = [http EXCEPT ![p] = Append(@, Answer("auth", resp))]
    /\ UNCHANGED <<store, txn, settings>>

\* search_products after _get_anonymous_token has returned: the search
\* request with the token it returned, the first one (lines 85-92) or the
\* retry (lines 97-102).
SearchSend(p) ==
    /\ pc[p] \in {"send1", "send2"}
    /\ pc' = [pc EXCEPT ![p] = IF pc[p] = "send1" THEN "search1" ELSE "search2"]
    /\ http' = [http EXCEPT ![p] = Append(@, SearchRequest(loc[p].bearer))]
    /\ UNCHANGED <<store, txn, settings, client, loc, out>>

\* search_products ends with the products found or with an exception.
SearchFinish(p, resp) ==
    LET r == SearchResult(resp)
    IN  /\ Finish(p, IF r.raised THEN Raises("", r.error) ELSE Returns("", <<>>))
        /\ loc' = [loc EXCEPT ![p].result = r.ids]
        /\ http' = [http EXCEPT ![p] = Append(@, Answer("search", resp))]

\* The answer to the first search request (lines 93-123).
SearchResponse1(p, resp) ==
    /\ pc[p] = "search1"
    /\ IF resp.net = "ok" /\ resp.status = 401
       THEN /\ client' = [client EXCEPT !.anonymous_token = None]
            /\ pc' = [pc EXCEPT ![p] = "auth2"]
            /\ http' = [http EXCEPT ![p] = @ \o <<Answer("search", resp), AuthRequest>>]
            /\ UNCHANGED <<out, loc>>
       ELSE /\ SearchFinish(p, resp)
            /\ UNCHANGED client
    /\ UNCHANGED <<store, txn, settings>>

\* A faulty variant of SearchResponse2: a 401 on the retry sends the request once more.
SearchResponse2_Retrying(p, resp) ==
    /\ pc[p] = "search2"
    /\ IF resp.net = "ok" /\ resp.status = 401
       THEN /\ http' = [http EXCEPT ![p] =
                           @ \o <<Answer("search", resp), SearchRequest(loc[p].bearer)>>]
            /\ UNCHANGED <<pc, out, loc>>
       ELSE SearchFinish(p, resp)
    /\ UNCHANGED <<store, txn, settings, client>>

\* The answer to the retried search request (lines 103-123): no further retry.
SearchResponse2(p, resp) ==
    /\ pc[p] = "search2"
    /\ SearchFinish(p, resp)
    /\ UNCHANGED <<store, txn, settings, client>>

(***************************************************************************)
(* The state after start-up: an empty mapping table, the settings rows the *)
(* migrations insert, a fresh AHClient and no request in progress.         *)
(***************************************************************************)
TxnIdle == [form |-> <<>>, existing |-> 0, loaded |-> <<>>]

InitCommon ==
    /\ store = <<>>
    /\ txn = [p \in Procs |-> TxnIdle]
    /\ settings = SettingsInit
    /\ client = ClientInit
    /\ pc = [p \in Procs |-> "idle"]
    /\ loc = [p \in Procs |-> LocIdle]
    /\ http = [p \in Procs |-> <<>>]
    /\ out = [p \in Procs |-> NoOutcome]

(***************************************************************************)
(* The mapping handlers, src/app/api/routes.py lines 235-305.              *)
(***************************************************************************)
MsgMultiple == "MultipleResultsFound"

\* Requests that run one at a time use a single request slot.
Serial == {1}

\* POST /api/mapping handled without interleaving: the handler has no await
\* between its select and its commit.
SaveMapping(p, form) ==
    /\ pc[p] = "idle"
    /\ store' = SaveResult(store, form)
    /\ out' = [out EXCEPT ![p] =
                  IF Cardinality(Matching(store, form.recipe_slug,
                                          form.ingredient_reference_id)) > 1
                  THEN Raises("", MsgMultiple) ELSE Returns("", <<>>)]
    /\ UNCHANGED <<txn, settings, client, pc, loc, http>>

\* POST /api/mapping/delete.
DeleteMapping(p, slug, ref) ==
    /\ pc[p] = "idle"
    /\ store' = DeleteResult(store, slug, ref)
    /\ out' = [out EXCEPT ![p] =
                  IF Cardinality(Matching(store, slug, ref)) > 1
                  THEN Raises("", MsgMultiple) ELSE Returns("", <<>>)]
    /\ UNCHANGED <<txn, settings, client, pc, loc, http>>

InitStore == InitCommon

NextStore ==
    \E p \in Serial :
        \/ \E form \in StoreForms : SaveMapping(p, form)
        \/ \E key \in Keys : DeleteMapping(p, key[1], key[2])

SpecStore == InitStore /\ [][NextStore]_vars

(***************************************************************************)
(* Two save requests served by different workers on the same database:     *)
(* each runs its select and its commit in its own transaction, and the     *)
(* other request's statements may fall between the two.                    *)
(***************************************************************************)
TxnForms ==
    { SaveForm(k, s, t, p, q) :
        k \in {<<"r1", "i1">>, <<"r2", "i1">>}, s \in {"mapped", "skipped"},
        t \in {OnionText},
        p \in {Onion}, q \in 1..MaxQty }

\* Lines 254-259: the select of the existing row.
SaveSelect(p, form) ==
    /\ pc[p] = "idle"
    /\ LET m == Matching(store, form.recipe_slug, form.ingredient_reference_id)
       IN  IF Cardinality(m) > 1
           THEN /\ out' = [out EXCEPT ![p] = Raises("", MsgMultiple)]
                /\ UNCHANGED <<pc, txn>>
           ELSE /\ pc' = [pc EXCEPT ![p] = "commit"]
                /\ txn' = [txn EXCEPT ![p] =
                              [form |-> form,
                               existing |-> IF m = {} THEN 0 ELSE CHOOSE i \in m : TRUE,
                               loaded |-> IF m = {} THEN <<>>
                                          ELSE store[CHOOSE i \in m : TRUE]]]
                /\ out' = [out EXCEPT ![p] = NoOutcome]
    /\ UNCHANGED <<store, settings, client, loc, http>>

\* Lines 261-286: the update of the row selected, or the insert, and the commit.
\* The update writes the columns this request has changed on the row it
\* loaded.  The mapping table has no unique constraint on (recipe_slug,
\* ingredient_reference_id) (migration 001), so the insert always succeeds.
SaveCommit(p) ==
    /\ pc[p] = "commit"
    /\ store' = IF txn[p].existing # 0
                THEN [store EXCEPT ![txn[p].existing] =
                         FlushRow(@, txn[p].loaded, txn[p].form)]
                ELSE InsertRow(store, txn[p].form)
    /\ pc' = [pc EXCEPT ![p] = "idle"]
    /\ txn' = [txn EXCEPT ![p] = TxnIdle]
    /\ out' = [out EXCEPT ![p] = Returns("", <<>>)]
    /\ UNCHANGED <<settings, client, loc, http>>

InitTxn == InitCommon

NextTxn ==
    \E p \in Procs :
        \/ \E form \in TxnForms : SaveSelect(p, form)
        \/ SaveCommit(p)

SpecTxn == InitTxn /\ [][NextTxn]_vars

(***************************************************************************)
(* A caller that uses an AHClient directly, as src/tests/test_ah_client.py *)
(* does: it installs tokens and calls add_to_cart and search_products.     *)
(***************************************************************************)
Harness == {1}

HarnessAccess == {Some(""), Some("A0")}

HarnessRefresh == {Some(""), Some("R0")}

HarnessItems == {<<[product_id |-> 1, quantity |-> 1]>>}

CallSetUserTokens(p, access, refresh, cb) ==
    /\ pc[p] = "idle"
    /\ client' = SetTokens(client, access, refresh, cb)
    /\ UNCHANGED <<store, txn, settings, pc, loc, http, out>>

\* set_user_token.
CallSetUserToken(p, access) ==
    /\ pc[p] = "idle"
    /\ client' = [client EXCEPT !.user_token = access]
    /\ UNCHANGED <<store, txn, settings, pc, loc, http, out>>

CallAddToCart(p, items) ==
    /\ pc[p] = "idle"
    /\ LET s == AddToCartStart(client, items)
       IN  /\ pc' = [pc EXCEPT ![p] = IF s.raised THEN "done" ELSE "cart1"]
           /\ out' = [out EXCEPT ![p] = IF s.raised THEN Raises("", MsgNoToken) ELSE NoOutcome]
           /\ loc' = [loc EXCEPT ![p] = [LocIdle EXCEPT !.call = "add_to_cart",
                                                       !.bearer = s.bearer, !.body = s.body]]
           /\ http' = [http EXCEPT ![p] = s.log]
    /\ UNCHANGED <<store, txn, settings, client>>

CallSearch(p) ==
    /\ pc[p] = "idle"
    /\ SearchEnter(p)
    /\ UNCHANGED <<store, txn, settings, client>>

InitClient == InitCommon

NextClient ==
    \E p \in Harness :
        \/ \E a \in HarnessAccess, r \in HarnessRefresh,
              cb \in {None, Some(Callback("record", p))} : CallSetUserTokens(p, a, r, cb)
        \/ \E a \in HarnessAccess : CallSetUserToken(p, a)
        \/ \E items \in HarnessItems : CallAddToCart(p, items)
        \/ CallSearch(p)
        \/ \E resp \in CartResponses : CartResponse1(p, resp)
        \/ \E resp \in RefreshResponses, fail \in CommitFailures : RefreshResponse(p, resp, fail)
        \/ RetryCart(p)
        \/ \E resp \in CartResponses : CartResponse2(p, resp)
        \/ \E resp \in AuthResponses : AuthResponse(p, resp)
        \/ SearchSend(p)
        \/ \E resp \in SearchResponses : SearchResponse1(p, resp)
        \/ \E resp \in SearchResponses : SearchResponse2(p, resp)
        \/ Return(p)

SpecClient == InitClient /\ [][NextClient]_vars

(***************************************************************************)
(* Dates are day numbers; day 0 is a Monday.                               *)
(***************************************************************************)
DaysPerWeek == 7

\* date.weekday(): 0 for Monday.
Weekday(d) == d % DaysPerWeek

\* The days `today` is drawn from: one of each weekday.
Todays == 0..(DaysPerWeek - 1)

\* str(date).
IsoDate(d) == [iso |-> d]

(***************************************************************************)
(* The meal-plan gateway and the cart fill, src/app/clients/mealie.py      *)
(* lines 40-50 and src/app/api/routes.py lines 409-468.                    *)
(***************************************************************************)
MsgNoRecipes == "Geen recepten in weekmenu"

MsgNoMapped == "Geen gemapte ingrediënten gevonden"

\* get_mealplans up to its await: the request with the two dates.
MealplansRequest(start, end) ==
    [ev |-> "mealplans", start_date |-> IsoDate(start), end_date |-> IsoDate(end)]

\* The number of days from the first to the last day asked for (line 414).
FillSpan == 4

\* A faulty variant of FillStart: on a Monday the week after is taken.
FillStart_WeekAfter(today) == today + (DaysPerWeek - Weekday(today))

\* Lines 411-413: today when it is a Monday, else the next Monday.
FillStart(today) ==
    LET days_until_monday == (DaysPerWeek - Weekday(today)) % DaysPerWeek
    IN  IF Weekday(today) = 0 THEN today ELSE today + days_until_monday

\* A meal-plan entry of the gateway.
PlanEntry(date, recipe, recipeId) == [date |-> date, recipe |-> recipe, recipeId |-> recipeId]

Recipe(slug) == [slug |-> slug, name |-> slug, id |-> "id-" \o slug]

\* A key of a JSON object.
ObjectKey(name) == [key |-> name]

\* The gateway's answer: a JSON list ("list"), an envelope object with "items"
\* ("envelope"), an object without "items" ("object", `items` then holds the
\* object's keys, none for {}), or a body that is no JSON ("empty").
PlansAnswer(resp, shape, items) ==
    [net |-> resp.net, status |-> resp.status, shape |-> shape, items |-> items]

\* get_mealplans from the answer on (lines 48-50): raise_for_status, json(),
\* then the list itself, the envelope's "items", or the object itself.  What
\* a loop over the value returned sees is `plans`: the entries of a list, the
\* keys of an object.
GetMealplans(resp) ==
    IF ~IsSuccess(resp)
    THEN [raised |-> TRUE, error |-> IF resp.net = "error" THEN MsgTransport ELSE MsgHttp,
          kind |-> "", plans |-> <<>>]
    ELSE IF resp.shape = "empty"
    THEN [raised |-> TRUE, error |-> MsgJson, kind |-> "", plans |-> <<>>]
    ELSE IF resp.shape \in {"list", "envelope"}
    THEN [raised |-> FALSE, error |-> "", kind |-> "list", plans |-> resp.items]
    ELSE [raised |-> FALSE, error |-> "", kind |-> "dict", plans |-> resp.items]

\* The loop over the value get_mealplans returned calls plan.get on a key of
\* an object, which is a string (routes.py lines 332, 421).
LoopRaises(got) == got.kind = "dict" /\ got.plans # <<>>

\* Lines 421-422: the recipe's slug, else the entry's recipeId, else nothing.
SlugOf(plan) ==
    LET slug == IF plan.recipe = None THEN "" ELSE plan.recipe[1].slug
    IN  IF slug # "" THEN slug
        ELSE IF plan.recipeId = None THEN "" ELSE plan.recipeId[1]

\* Lines 419-424.
RecipeSlugs(plans) == {SlugOf(plans[i]) : i \in 1..Len(plans)} \ {""}

\* Lines 429-435: the rows of the planned recipes that are mapped to a product.
MappedRows(rows, slugs) ==
    SelectSeq(rows, LAMBDA m : /\ m.recipe_slug \in slugs
                               /\ m.status = "mapped"
                               /\ m.ah_product_id # None)

\* A faulty variant of AddLine: a product met again gets a second line.
AddLine_NoMerge(cart, m) ==
    Append(cart, [product_id |-> m.ah_product_id[1], quantity |-> m.ah_quantity,
                  name |-> m.ah_product_name])

\* Lines 443-450: one step of the aggregation loop; the cart is the dict's
\* values in insertion order.
AddLine(cart, m) ==
    IF \E j \in 1..Len(cart) : cart[j].product_id = m.ah_product_id[1]
    THEN LET j == CHOOSE k \in 1..Len(cart) : cart[k].product_id = m.ah_product_id[1]
         IN  [cart EXCEPT ![j].quantity = @ + m.ah_quantity]
    ELSE Append(cart, [product_id |-> m.ah_product_id[1], quantity |-> m.ah_quantity,
                       name |-> m.ah_product_name])

RECURSIVE AggregateFrom(_, _, _)
AggregateFrom(mappings, i, cart) ==
    IF i > Len(mappings) THEN cart
    ELSE AggregateFrom(mappings, i + 1, AddLine(cart, mappings[i]))

\* Lines 441-450 and list(cart.values()).
Aggregate(mappings) == AggregateFrom(mappings, 1, <<>>)

\* fill_cart up to its first await: the request for the week's meal plan.
FillCartCall(p, today) ==
    /\ pc[p] = "idle"
    /\ pc' = [pc EXCEPT ![p] = "plans"]
    /\ loc' = [loc EXCEPT ![p] = [LocIdle EXCEPT !.call = "fill_cart", !.args = <<today>>]]
    /\ http' = [http EXCEPT ![p] =
                   <<MealplansRequest(FillStart(today), FillStart(today) + FillSpan)>>]
    /\ out' = [out EXCEPT ![p] = NoOutcome]
    /\ UNCHANGED <<store, txn, settings, client>>

\* A faulty variant of PlansResponse: the stored tokens are handed to the client
\* before the preconditions are looked at.
PlansResponse_TokensFirst(p, resp) ==
    /\ pc[p] = "plans"
    /\ LET got == GetMealplans(resp)
           slugs == RecipeSlugs(got.plans)
           mappings == MappedRows(store, slugs)
           cart == Aggregate(mappings)
           access == GetSetting(settings, "ah_user_token")
           refresh == GetSetting(settings, "ah_refresh_token")
           cl == SetTokens(client, Some(access), Some(refresh), Some(Callback("save", p)))
           start == AddToCartStart(cl, cart)
           log == Append(http[p], Answer("mealplans", resp))
       IN  IF got.raised \/ LoopRaises(got)
           THEN /\ Finish(p, Raises("", IF got.raised THEN got.error ELSE MsgAttribute))
                /\ http' = [http EXCEPT ![p] = log]
                /\ client' = cl
                /\ UNCHANGED loc
           ELSE IF slugs = {}
           THEN /\ Finish(p, Raises("fill_cart", MsgNoRecipes))
                /\ http' = [http EXCEPT ![p] = log]
                /\ client' = cl
                /\ UNCHANGED loc
           ELSE IF Len(mappings) = 0
           THEN /\ Finish(p, Raises("fill_cart", MsgNoMapped))
                /\ http' = [http EXCEPT ![p] = log]
                /\ client' = cl
                /\ UNCHANGED loc
           ELSE IF access = "" /\ refresh = ""
           THEN /\ Finish(p, Raises("fill_cart", MsgNoToken))
                /\ http' = [http EXCEPT ![p] = log]
                /\ loc' = [loc EXCEPT ![p].cart = cart, ![p].access_token = access,
                                      ![p].refresh_token = refresh]
                /\ client' = cl
           ELSE /\ client' = cl
                /\ loc' = [loc EXCEPT ![p] =
                              [LocIdle EXCEPT !.call = "fill_cart", !.caller = "fill_cart",
                                              !.args = loc[p].args,
                                              !.bearer = start.bearer, !.body = start.body,
                                              !.cart = cart, !.access_token = access,
                                              !.refresh_token = refresh]]
                /\ http' = [http EXCEPT ![p] = log \o start.log]
                /\ IF start.raised
                   THEN Finish(p, Raises("fill_cart", MsgNoToken))
                   ELSE /\ pc' = [pc EXCEPT ![p] = "cart1"]
                        /\ UNCHANGED out
    /\ UNCHANGED <<store, txn, settings>>

\* fill_cart from the gateway's answer to the first PATCH of the cart (lines
\* 418-463 and add_to_cart lines 126-149).  An exception of get_mealplans, or
\* of the loop over the keys of an object, leaves the handler unhandled; the
\* object {} has no keys and reads as a week without recipes.
PlansResponse(p, resp) ==
    /\ pc[p] = "plans"
    /\ LET got == GetMealplans(resp)
           slugs == RecipeSlugs(got.plans)
           mappings == MappedRows(store, slugs)
           cart == Aggregate(mappings)
           access == GetSetting(settings, "ah_user_token")
           refresh == GetSetting(settings, "ah_refresh_token")
           cl == SetTokens(client, Some(access), Some(refresh), Some(Callback("save", p)))
           start == AddToCartStart(cl, cart)
           log == Append(http[p], Answer("mealplans", resp))
       IN  IF got.raised \/ LoopRaises(got)
           THEN /\ Finish(p, Raises("", IF got.raised THEN got.error ELSE MsgAttribute))
                /\ http' = [http EXCEPT ![p] = log]
                /\ UNCHANGED <<client, loc>>
           ELSE IF slugs = {}
           THEN /\ Finish(p, Raises("fill_cart", MsgNoRecipes))
                /\ http' = [http EXCEPT ![p] = log]
                /\ UNCHANGED <<client, loc>>
           ELSE IF Len(mappings) = 0
           THEN /\ Finish(p, Raises("fill_cart", MsgNoMapped))
                /\ http' = [http EXCEPT ![p] = log]
                /\ UNCHANGED <<client, loc>>
           ELSE IF access = "" /\ refresh = ""
           THEN /\ Finish(p, Raises("fill_cart", MsgNoToken))
                /\ http' = [http EXCEPT ![p] = log]
                /\ loc' = [loc EXCEPT ![p].cart = cart, ![p].access_token = access,
                                      ![p].refresh_token = refresh]
                /\ UNCHANGED client
           ELSE /\ client' = cl
                /\ loc' = [loc EXCEPT ![p] =
                              [LocIdle EXCEPT !.call = "fill_cart", !.caller = "fill_cart",
                                              !.args = loc[p].args,
                                              !.bearer = start.bearer, !.body = start.body,
                                              !.cart = cart, !.access_token = access,
                                              !.refresh_token = refresh]]
                /\ http' = [http EXCEPT ![p] = log \o start.log]
                /\ IF start.raised
                   THEN Finish(p, Raises("fill_cart", MsgNoToken))
                   ELSE /\ pc' = [pc EXCEPT ![p] = "cart1"]
                        /\ UNCHANGED out
    /\ UNCHANGED <<store, txn, settings>>

\* The token store's set on the two token keys: _set_setting, called as the
\* settings handler calls it (lines 705-706).
StoreTokens(p, access, refresh) ==
    /\ pc[p] = "idle"
    /\ settings' = SetSetting(SetSetting(settings, "ah_user_token", access),
                              "ah_refresh_token", refresh)
    /\ UNCHANGED <<store, txn, client, pc, loc, http, out>>

(***************************************************************************)
(* The cart fill, one request at a time.  SpecFill gives the token store   *)
(* and the retailer every answer over a small mapping table; SpecAgg gives *)
(* the mapping table and the meal plan their variety while the stored      *)
(* access token is accepted by the retailer.                               *)
(***************************************************************************)
StoredAccess == {"", "A0"}

StoredRefresh == {"", "R0"}

Soup == PlanEntry("d1", Some(Recipe("r1")), Some("id-r1"))

Stew == PlanEntry("d2", Some(Recipe("r2")), Some("id-r2"))

\* An entry without a recipe object, and one without any recipe.
IdOnly == PlanEntry("d3", None, Some("id-r3"))

Note == PlanEntry("d4", None, None)

FillForms ==
    {SaveForm(<<"r1", "i1">>, "mapped", OnionText, Onion, 1),
     SaveForm(<<"r2", "i1">>, "mapped", MilkText, Milk, 1)}

FillPlans ==
    {PlansAnswer(Status(200), "list", <<>>),
     PlansAnswer(Status(200), "list", <<Soup>>),
     PlansAnswer(Status(200), "envelope", <<Soup, Stew>>),
     PlansAnswer(Status(200), "object", <<>>),
     PlansAnswer(Status(200), "object", <<ObjectKey("detail")>>),
     PlansAnswer(Status(200), "empty", <<>>),
     PlansAnswer(Status(302), "list", <<Soup>>),
     PlansAnswer(Status(500), "object", <<>>),
     PlansAnswer(Transport, "object", <<>>)}

InitFill == InitCommon

NextFill ==
    \E p \in Serial :
        \/ \E form \in FillForms : SaveMapping(p, form)
        \/ \E a \in StoredAccess, r \in StoredRefresh : StoreTokens(p, a, r)
        \/ FillCartCall(p, 0)
        \/ \E resp \in FillPlans : PlansResponse(p, resp)
        \/ \E resp \in CartResponses : CartResponse1(p, resp)
        \/ \E resp \in RefreshResponses, fail \in CommitFailures : RefreshResponse(p, resp, fail)
        \/ RetryCart(p)
        \/ \E resp \in CartResponses : CartResponse2(p, resp)
        \/ Return(p)

SpecFill == InitFill /\ [][NextFill]_vars

AggForms ==
    {SaveForm(key, "mapped", OnionText, Onion, q) : key \in Keys, q \in 1..MaxQty}
    \cup {SaveForm(key, "mapped", MilkText, Milk, 1) : key \in Keys}
    \cup {SaveForm(key, "mapped", MilkText, NoProduct, 1) : key \in Keys}
    \cup {SaveForm(key, "skipped", OnionText, Onion, 1) : key \in Keys}

AggPlans ==
    {PlansAnswer(Status(200), shape, items) :
        shape \in {"list", "envelope"},
        items \in {<<>>, <<Soup>>, <<Stew>>, <<Soup, Stew>>, <<Soup, Soup>>,
                   <<IdOnly>>, <<Note, Stew>>}}

InitAgg == InitCommon

NextAgg ==
    \E p \in Serial :
        \/ \E form \in AggForms : SaveMapping(p, form)
        \/ StoreTokens(p, "A0", "R0")
        \/ FillCartCall(p, 0)
        \/ \E resp \in AggPlans : PlansResponse(p, resp)
        \/ \E resp \in {Status(200), Status(500)} : CartResponse1(p, resp)
        \/ Return(p)

SpecAgg == InitAgg /\ [][NextAgg]_vars

(***************************************************************************)
(* The suggestion engine, src/app/api/routes.py lines 158-229.  A text is  *)
(* the sequence of the code points of its characters; Spelling gives that  *)
(* sequence for every display text the model uses.  The character classes  *)
(* are those of the str patterns of re and of the str methods of Python    *)
(* 3.11 (Unicode 14.0), over all code points.                              *)
(***************************************************************************)
\* The class [\d.,] of line 169: the decimal digits of every script, the full
\* stop and the comma.
NumChars ==
    LET digits ==
            (48..57) \cup (1632..1641) \cup (1776..1785) \cup
            (1984..1993) \cup (2406..2415) \cup (2534..2543) \cup
            (2662..2671) \cup (2790..2799) \cup (2918..2927) \cup
            (3046..3055) \cup (3174..3183) \cup (3302..3311) \cup
            (3430..3439) \cup (3558..3567) \cup (3664..3673) \cup
            (3792..3801) \cup (3872..3881) \cup (4160..4169) \cup
            (4240..4249) \cup (6112..6121) \cup (6160..6169) \cup
            (6470..6479) \cup (6608..6617) \cup (6784..6793) \cup
            (6800..6809) \cup (6992..7001) \cup (7088..7097) \cup
            (7232..7241) \cup (7248..7257) \cup (42528..42537) \cup
            (43216..43225) \cup (43264..43273) \cup (43472..43481) \cup
            (43504..43513) \cup (43600..43609) \cup (44016..44025) \cup
            (65296..65305) \cup (66720..66729) \cup (68912..68921) \cup
            (69734..69743) \cup (69872..69881) \cup (69942..69951) \cup
            (70096..70105) \cup (70384..70393) \cup (70736..70745) \cup
            (70864..70873) \cup (71248..71257) \cup (71360..71369) \cup
            (71472..71481) \cup (71904..71913) \cup (72016..72025) \cup
            (72784..72793) \cup (73040..73049) \cup (73120..73129) \cup
            (92768..92777) \cup (92864..92873) \cup (93008..93017) \cup
            (120782..120831) \cup (123200..123209) \cup (123632..123641) \cup
            (125264..125273) \cup (130032..130041)
    IN  digits \cup {44, 46}

\* Whitespace, for \s, str.strip() and str.split() alike (str.isspace).
SpaceChars ==
    (9..13) \cup (28..32) \cup {133, 160, 5760} \cup (8192..8202) \cup
    (8232..8233) \cup {8239, 8287, 12288}

\* The class [\s,.-] of line 175.
EdgeChars == SpaceChars \cup {44, 45, 46}

\* The class \w of a str pattern: the letters and the numeric characters of
\* every script (str.isalnum) and the underscore, as the ranges <<first, last>>
\* of their code points in ascending order.
WordChars ==
    <<<<48, 57>>, <<65, 90>>, <<95, 95>>, <<97, 122>>, <<170, 170>>,
      <<178, 179>>, <<181, 181>>, <<185, 186>>, <<188, 190>>, <<192, 214>>,
      <<216, 246>>, <<248, 705>>, <<710, 721>>, <<736, 740>>, <<748, 748>>,
      <<750, 750>>, <<880, 884>>, <<886, 887>>, <<890, 893>>, <<895, 895>>,
      <<902, 902>>, <<904, 906>>, <<908, 908>>, <<910, 929>>, <<931, 1013>>,
      <<1015, 1153>>, <<1162, 1327>>, <<1329, 1366>>, <<1369, 1369>>,
      <<1376, 1416>>, <<1488, 1514>>, <<1519, 1522>>, <<1568, 1610>>,
      <<1632, 1641>>, <<1646, 1647>>, <<1649, 1747>>, <<1749, 1749>>,
      <<1765, 1766>>, <<1774, 1788>>, <<1791, 1791>>, <<1808, 1808>>,
      <<1810, 1839>>, <<1869, 1957>>, <<1969, 1969>>, <<1984, 2026>>,
      <<2036, 2037>>, <<2042, 2042>>, <<2048, 2069>>, <<2074, 2074>>,
      <<2084, 2084>>, <<2088, 2088>>, <<2112, 2136>>, <<2144, 2154>>,
      <<2160, 2183>>, <<2185, 2190>>, <<2208, 2249>>, <<2308, 2361>>,
      <<2365, 2365>>, <<2384, 2384>>, <<2392, 2401>>, <<2406, 2415>>,
      <<2417, 2432>>, <<2437, 2444>>, <<2447, 2448>>, <<2451, 2472>>,
      <<2474, 2480>>, <<2482, 2482>>, <<2486, 2489>>, <<2493, 2493>>,
      <<2510, 2510>>, <<2524, 2525>>, <<2527, 2529>>, <<2534, 2545>>,
      <<2548, 2553>>, <<2556, 2556>>, <<2565, 2570>>, <<2575, 2576>>,
      <<2579, 2600>>, <<2602, 2608>>, <<2610, 2611>>, <<2613, 2614>>,
      <<2616, 2617>>, <<2649, 2652>>, <<2654, 2654>>, <<2662, 2671>>,
      <<2674, 2676>>, <<2693, 2701>>, <<2703, 2705>>, <<2707, 2728>>,
      <<2730, 2736>>, <<2738, 2739>>, <<2741, 2745>>, <<2749, 2749>>,
      <<2768, 2768>>, <<2784, 2785>>, <<2790, 2799>>, <<2809, 2809>>,
      <<2821, 2828>>, <<2831, 2832>>, <<2835, 2856>>, <<2858, 2864>>,
      <<2866, 2867>>, <<2869, 2873>>, <<2877, 2877>>, <<2908, 2909>>,
      <<2911, 2913>>, <<2918, 2927>>, <<2929, 2935>>, <<2947, 2947>>,
      <<2949, 2954>>, <<2958, 2960>>, <<2962, 2965>>, <<2969, 2970>>,
      <<2972, 2972>>, <<2974, 2975>>, <<2979, 2980>>, <<2984, 2986>>,
      <<2990, 3001>>, <<3024, 3024>>, <<3046, 3058>>, <<3077, 3084>>,
      <<3086, 3088>>, <<3090, 3112>>, <<3114, 3129>>, <<3133, 3133>>,
      <<3160, 3162>>, <<3165, 3165>>, <<3168, 3169>>, <<3174, 3183>>,
      <<3192, 3198>>, <<3200, 3200>>, <<3205, 3212>>, <<3214, 3216>>,
      <<3218, 3240>>, <<3242, 3251>>, <<3253, 3257>>, <<3261, 3261>>,
      <<3293, 3294>>, <<3296, 3297>>, <<3302, 3311>>, <<3313, 3314>>,
      <<3332, 3340>>, <<3342, 3344>>, <<3346, 3386>>, <<3389, 3389>>,
      <<3406, 3406>>, <<3412, 3414>>, <<3416, 3425>>, <<3430, 3448>>,
      <<3450, 3455>>, <<3461, 3478>>, <<3482, 3505>>, <<3507, 3515>>,
      <<3517, 3517>>, <<3520, 3526>>, <<3558, 3567>>, <<3585, 3632>>,
      <<3634, 3635>>, <<3648, 3654>>, <<3664, 3673>>, <<3713, 3714>>,
      <<3716, 3716>>, <<3718, 3722>>, <<3724, 3747>>, <<3749, 3749>>,
      <<3751, 3760>>, <<3762, 3763>>, <<3773, 3773>>, <<3776, 3780>>,
      <<3782, 3782>>, <<3792, 3801>>, <<3804, 3807>>, <<3840, 3840>>,
      <<3872, 3891>>, <<3904, 3911>>, <<3913, 3948>>, <<3976, 3980>>,
      <<4096, 4138>>, <<4159, 4169>>, <<4176, 4181>>, <<4186, 4189>>,
      <<4193, 4193>>, <<4197, 4198>>, <<4206, 4208>>, <<4213, 4225>>,
      <<4238, 4238>>, <<4240, 4249>>, <<4256, 4293>>, <<4295, 4295>>,
      <<4301, 4301>>, <<4304, 4346>>, <<4348, 4680>>, <<4682, 4685>>,
      <<4688, 4694>>, <<4696, 4696>>, <<4698, 4701>>, <<4704, 4744>>,
      <<4746, 4749>>, <<4752, 4784>>, <<4786, 4789>>, <<4792, 4798>>,
      <<4800, 4800>>, <<4802, 4805>>, <<4808, 4822>>, <<4824, 4880>>,
      <<4882, 4885>>, <<4888, 4954>>, <<4969, 4988>>, <<4992, 5007>>,
      <<5024, 5109>>, <<5112, 5117>>, <<5121, 5740>>, <<5743, 5759>>,
      <<5761, 5786>>, <<5792, 5866>>, <<5870, 5880>>, <<5888, 5905>>,
      <<5919, 5937>>, <<5952, 5969>>, <<5984, 5996>>, <<5998, 6000>>,
      <<6016, 6067>>, <<6103, 6103>>, <<6108, 6108>>, <<6112, 6121>>,
      <<6128, 6137>>, <<6160, 6169>>, <<6176, 6264>>, <<6272, 6276>>,
      <<6279, 6312>>, <<6314, 6314>>, <<6320, 6389>>, <<6400, 6430>>,
      <<6470, 6509>>, <<6512, 6516>>, <<6528, 6571>>, <<6576, 6601>>,
      <<6608, 6618>>, <<6656, 6678>>, <<6688, 6740>>, <<6784, 6793>>,
      <<6800, 6809>>, <<6823, 6823>>, <<6917, 6963>>, <<6981, 6988>>,
      <<6992, 7001>>, <<7043, 7072>>, <<7086, 7141>>, <<7168, 7203>>,
      <<7232, 7241>>, <<7245, 7293>>, <<7296, 7304>>, <<7312, 7354>>,
      <<7357, 7359>>, <<7401, 7404>>, <<7406, 7411>>, <<7413, 7414>>,
      <<7418, 7418>>, <<7424, 7615>>, <<7680, 7957>>, <<7960, 7965>>,
      <<7968, 8005>>, <<8008, 8013>>, <<8016, 8023>>, <<8025, 8025>>,
      <<8027, 8027>>, <<8029, 8029>>, <<8031, 8061>>, <<8064, 8116>>,
      <<8118, 8124>>, <<8126, 8126>>, <<8130, 8132>>, <<8134, 8140>>,
      <<8144, 8147>>, <<8150, 8155>>, <<8160, 8172>>, <<8178, 8180>>,
      <<8182, 8188>>, <<8304, 8305>>, <<8308, 8313>>, <<8319, 8329>>,
      <<8336, 8348>>, <<8450, 8450>>, <<8455, 8455>>, <<8458, 8467>>,
      <<8469, 8469>>, <<8473, 8477>>, <<8484, 8484>>, <<8486, 8486>>,
      <<8488, 8488>>, <<8490, 8493>>, <<8495, 8505>>, <<8508, 8511>>,
      <<8517, 8521>>, <<8526, 8526>>, <<8528, 8585>>, <<9312, 9371>>,
      <<9450, 9471>>, <<10102, 10131>>, <<11264, 11492>>, <<11499, 11502>>,
      <<11506, 11507>>, <<11517, 11517>>, <<11520, 11557>>, <<11559, 11559>>,
      <<11565, 11565>>, <<11568, 11623>>, <<11631, 11631>>, <<11648, 11670>>,
      <<11680, 11686>>, <<11688, 11694>>, <<11696, 11702>>, <<11704, 11710>>,
      <<11712, 11718>>, <<11720, 11726>>, <<11728, 11734>>, <<11736, 11742>>,
      <<11823, 11823>>, <<12293, 12295>>, <<12321, 12329>>, <<12337, 12341>>,
      <<12344, 12348>>, <<12353, 12438>>, <<12445, 12447>>, <<12449, 12538>>,
      <<12540, 12543>>, <<12549, 12591>>, <<12593, 12686>>, <<12690, 12693>>,
      <<12704, 12735>>, <<12784, 12799>>, <<12832, 12841>>, <<12872, 12879>>,
      <<12881, 12895>>, <<12928, 12937>>, <<12977, 12991>>, <<13312, 19903>>,
      <<19968, 42124>>, <<42192, 42237>>, <<42240, 42508>>, <<42512, 42539>>,
      <<42560, 42606>>, <<42623, 42653>>, <<42656, 42735>>, <<42775, 42783>>,
      <<42786, 42888>>, <<42891, 42954>>, <<42960, 42961>>, <<42963, 42963>>,
      <<42965, 42969>>, <<42994, 43009>>, <<43011, 43013>>, <<43015, 43018>>,
      <<43020, 43042>>, <<43056, 43061>>, <<43072, 43123>>, <<43138, 43187>>,
      <<43216, 43225>>, <<43250, 43255>>, <<43259, 43259>>, <<43261, 43262>>,
      <<43264, 43301>>, <<43312, 43334>>, <<43360, 43388>>, <<43396, 43442>>,
      <<43471, 43481>>, <<43488, 43492>>, <<43494, 43518>>, <<43520, 43560>>,
      <<43584, 43586>>, <<43588, 43595>>, <<43600, 43609>>, <<43616, 43638>>,
      <<43642, 43642>>, <<43646, 43695>>, <<43697, 43697>>, <<43701, 43702>>,
      <<43705, 43709>>, <<43712, 43712>>, <<43714, 43714>>, <<43739, 43741>>,
      <<43744, 43754>>, <<43762, 43764>>, <<43777, 43782>>, <<43785, 43790>>,
      <<43793, 43798>>, <<43808, 43814>>, <<43816, 43822>>, <<43824, 43866>>,
      <<43868, 43881>>, <<43888, 44002>>, <<44016, 44025>>, <<44032, 55203>>,
      <<55216, 55238>>, <<55243, 55291>>, <<63744, 64109>>, <<64112, 64217>>,
      <<64256, 64262>>, <<64275, 64279>>, <<64285, 64285>>, <<64287, 64296>>,
      <<64298, 64310>>, <<64312, 64316>>, <<64318, 64318>>, <<64320, 64321>>,
      <<64323, 64324>>, <<64326, 64433>>, <<64467, 64829>>, <<64848, 64911>>,
      <<64914, 64967>>, <<65008, 65019>>, <<65136, 65140>>, <<65142, 65276>>,
      <<65296, 65305>>, <<65313, 65338>>, <<65345, 65370>>, <<65382, 65470>>,
      <<65474, 65479>>, <<65482, 65487>>, <<65490, 65495>>, <<65498, 65500>>,
      <<65536, 65547>>, <<65549, 65574>>, <<65576, 65594>>, <<65596, 65597>>,
      <<65599, 65613>>, <<65616, 65629>>, <<65664, 65786>>, <<65799, 65843>>,
      <<65856, 65912>>, <<65930, 65931>>, <<66176, 66204>>, <<66208, 66256>>,
      <<66273, 66299>>, <<66304, 66339>>, <<66349, 66378>>, <<66384, 66421>>,
      <<66432, 66461>>, <<66464, 66499>>, <<66504, 66511>>, <<66513, 66517>>,
      <<66560, 66717>>, <<66720, 66729>>, <<66736, 66771>>, <<66776, 66811>>,
      <<66816, 66855>>, <<66864, 66915>>, <<66928, 66938>>, <<66940, 66954>>,
      <<66956, 66962>>, <<66964, 66965>>, <<66967, 66977>>, <<66979, 66993>>,
      <<66995, 67001>>, <<67003, 67004>>, <<67072, 67382>>, <<67392, 67413>>,
      <<67424, 67431>>, <<67456, 67461>>, <<67463, 67504>>, <<67506, 67514>>,
      <<67584, 67589>>, <<67592, 67592>>, <<67594, 67637>>, <<67639, 67640>>,
      <<67644, 67644>>, <<67647, 67669>>, <<67672, 67702>>, <<67705, 67742>>,
      <<67751, 67759>>, <<67808, 67826>>, <<67828, 67829>>, <<67835, 67867>>,
      <<67872, 67897>>, <<67968, 68023>>, <<68028, 68047>>, <<68050, 68096>>,
      <<68112, 68115>>, <<68117, 68119>>, <<68121, 68149>>, <<68160, 68168>>,
      <<68192, 68222>>, <<68224, 68255>>, <<68288, 68295>>, <<68297, 68324>>,
      <<68331, 68335>>, <<68352, 68405>>, <<68416, 68437>>, <<68440, 68466>>,
      <<68472, 68497>>, <<68521, 68527>>, <<68608, 68680>>, <<68736, 68786>>,
      <<68800, 68850>>, <<68858, 68899>>, <<68912, 68921>>, <<69216, 69246>>,
      <<69248, 69289>>, <<69296, 69297>>, <<69376, 69415>>, <<69424, 69445>>,
      <<69457, 69460>>, <<69488, 69505>>, <<69552, 69579>>, <<69600, 69622>>,
      <<69635, 69687>>, <<69714, 69743>>, <<69745, 69746>>, <<69749, 69749>>,
      <<69763, 69807>>, <<69840, 69864>>, <<69872, 69881>>, <<69891, 69926>>,
      <<69942, 69951>>, <<69956, 69956>>, <<69959, 69959>>, <<69968, 70002>>,
      <<70006, 70006>>, <<70019, 70066>>, <<70081, 70084>>, <<70096, 70106>>,
      <<70108, 70108>>, <<70113, 70132>>, <<70144, 70161>>, <<70163, 70187>>,
      <<70272, 70278>>, <<70280, 70280>>, <<70282, 70285>>, <<70287, 70301>>,
      <<70303, 70312>>, <<70320, 70366>>, <<70384, 70393>>, <<70405, 70412>>,
      <<70415, 70416>>, <<70419, 70440>>, <<70442, 70448>>, <<70450, 70451>>,
      <<70453, 70457>>, <<70461, 70461>>, <<70480, 70480>>, <<70493, 70497>>,
      <<70656, 70708>>, <<70727, 70730>>, <<70736, 70745>>, <<70751, 70753>>,
      <<70784, 70831>>, <<70852, 70853>>, <<70855, 70855>>, <<70864, 70873>>,
      <<71040, 71086>>, <<71128, 71131>>, <<71168, 71215>>, <<71236, 71236>>,
      <<71248, 71257>>, <<71296, 71338>>, <<71352, 71352>>, <<71360, 71369>>,
      <<71424, 71450>>, <<71472, 71483>>, <<71488, 71494>>, <<71680, 71723>>,
      <<71840, 71922>>, <<71935, 71942>>, <<71945, 71945>>, <<71948, 71955>>,
      <<71957, 71958>>, <<71960, 71983>>, <<71999, 71999>>, <<72001, 72001>>,
      <<72016, 72025>>, <<72096, 72103>>, <<72106, 72144>>, <<72161, 72161>>,
      <<72163, 72163>>, <<72192, 72192>>, <<72203, 72242>>, <<72250, 72250>>,
      <<72272, 72272>>, <<72284, 72329>>, <<72349, 72349>>, <<72368, 72440>>,
      <<72704, 72712>>, <<72714, 72750>>, <<72768, 72768>>, <<72784, 72812>>,
      <<72818, 72847>>, <<72960, 72966>>, <<72968, 72969>>, <<72971, 73008>>,
      <<73030, 73030>>, <<73040, 73049>>, <<73056, 73061>>, <<73063, 73064>>,
      <<73066, 73097>>, <<73112, 73112>>, <<73120, 73129>>, <<73440, 73458>>,
      <<73648, 73648>>, <<73664, 73684>>, <<73728, 74649>>, <<74752, 74862>>,
      <<74880, 75075>>, <<77712, 77808>>, <<77824, 78894>>, <<82944, 83526>>,
      <<92160, 92728>>, <<92736, 92766>>, <<92768, 92777>>, <<92784, 92862>>,
      <<92864, 92873>>, <<92880, 92909>>, <<92928, 92975>>, <<92992, 92995>>,
      <<93008, 93017>>, <<93019, 93025>>, <<93027, 93047>>, <<93053, 93071>>,
      <<93760, 93846>>, <<93952, 94026>>, <<94032, 94032>>, <<94099, 94111>>,
      <<94176, 94177>>, <<94179, 94179>>, <<94208, 100343>>,
      <<100352, 101589>>, <<101632, 101640>>, <<110576, 110579>>,
      <<110581, 110587>>, <<110589, 110590>>, <<110592, 110882>>,
      <<110928, 110930>>, <<110948, 110951>>, <<110960, 111355>>,
      <<113664, 113770>>, <<113776, 113788>>, <<113792, 113800>>,
      <<113808, 113817>>, <<119520, 119539>>, <<119648, 119672>>,
      <<119808, 119892>>, <<119894, 119964>>, <<119966, 119967>>,
      <<119970, 119970>>, <<119973, 119974>>, <<119977, 119980>>,
      <<119982, 119993>>, <<119995, 119995>>, <<119997, 120003>>,
      <<120005, 120069>>, <<120071, 120074>>, <<120077, 120084>>,
      <<120086, 120092>>, <<120094, 120121>>, <<120123, 120126>>,
      <<120128, 120132>>, <<120134, 120134>>, <<120138, 120144>>,
      <<120146, 120485>>, <<120488, 120512>>, <<120514, 120538>>,
      <<120540, 120570>>, <<120572, 120596>>, <<120598, 120628>>,
      <<120630, 120654>>, <<120656, 120686>>, <<120688, 120712>>,
      <<120714, 120744>>, <<120746, 120770>>, <<120772, 120779>>,
      <<120782, 120831>>, <<122624, 122654>>, <<123136, 123180>>,
      <<123191, 123197>>, <<123200, 123209>>, <<123214, 123214>>,
      <<123536, 123565>>, <<123584, 123627>>, <<123632, 123641>>,
      <<124896, 124902>>, <<124904, 124907>>, <<124909, 124910>>,
      <<124912, 124926>>, <<124928, 125124>>, <<125127, 125135>>,
      <<125184, 125251>>, <<125259, 125259>>, <<125264, 125273>>,
      <<126065, 126123>>, <<126125, 126127>>, <<126129, 126132>>,
      <<126209, 126253>>, <<126255, 126269>>, <<126464, 126467>>,
      <<126469, 126495>>, <<126497, 126498>>, <<126500, 126500>>,
      <<126503, 126503>>, <<126505, 126514>>, <<126516, 126519>>,
      <<126521, 126521>>, <<126523, 126523>>, <<126530, 126530>>,
      <<126535, 126535>>, <<126537, 126537>>, <<126539, 126539>>,
      <<126541, 126543>>, <<126545, 126546>>, <<126548, 126548>>,
      <<126551, 126551>>, <<126553, 126553>>, <<126555, 126555>>,
      <<126557, 126557>>, <<126559, 126559>>, <<126561, 126562>>,
      <<126564, 126564>>, <<126567, 126570>>, <<126572, 126578>>,
      <<126580, 126583>>, <<126585, 126588>>, <<126590, 126590>>,
      <<126592, 126601>>, <<126603, 126619>>, <<126625, 126627>>,
      <<126629, 126633>>, <<126635, 126651>>, <<127232, 127244>>,
      <<130032, 130041>>, <<131072, 173791>>, <<173824, 177976>>,
      <<177984, 178205>>, <<178208, 183969>>, <<183984, 191456>>,
      <<194560, 195101>>, <<196608, 201546>>>>

\* c lies in one of the ranges between the places lo and hi of a table of
\* ranges in ascending order.
RECURSIVE InRanges(_, _, _, _)
InRanges(ranges, c, lo, hi) ==
    IF lo > hi THEN FALSE
    ELSE LET mid == (lo + hi) \div 2
         IN  IF c < ranges[mid][1] THEN InRanges(ranges, c, lo, mid - 1)
             ELSE IF c > ranges[mid][2] THEN InRanges(ranges, c, mid + 1, hi)
             ELSE TRUE

\* str.lower() on the code points from 256 on that it changes into one other
\* code point: <<first, last, step, shift>> moves every step-th code point
\* from first to last by shift.
LowerRules ==
    <<<<256, 302, 2, 1>>, <<306, 310, 2, 1>>, <<313, 327, 2, 1>>,
      <<330, 374, 2, 1>>, <<376, 376, 1, -121>>, <<377, 381, 2, 1>>,
      <<385, 385, 1, 210>>, <<386, 388, 2, 1>>, <<390, 390, 1, 206>>,
      <<391, 391, 1, 1>>, <<393, 394, 1, 205>>, <<395, 395, 1, 1>>,
      <<398, 398, 1, 79>>, <<399, 399, 1, 202>>, <<400, 400, 1, 203>>,
      <<401, 401, 1, 1>>, <<403, 403, 1, 205>>, <<404, 404, 1, 207>>,
      <<406, 406, 1, 211>>, <<407, 407, 1, 209>>, <<408, 408, 1, 1>>,
      <<412, 412, 1, 211>>, <<413, 413, 1, 213>>, <<415, 415, 1, 214>>,
      <<416, 420, 2, 1>>, <<422, 422, 1, 218>>, <<423, 423, 1, 1>>,
      <<425, 425, 1, 218>>, <<428, 428, 1, 1>>, <<430, 430, 1, 218>>,
      <<431, 431, 1, 1>>, <<433, 434, 1, 217>>, <<435, 437, 2, 1>>,
      <<439, 439, 1, 219>>, <<440, 440, 1, 1>>, <<444, 444, 1, 1>>,
      <<452, 452, 1, 2>>, <<453, 453, 1, 1>>, <<455, 455, 1, 2>>,
      <<456, 456, 1, 1>>, <<458, 458, 1, 2>>, <<459, 475, 2, 1>>,
      <<478, 494, 2, 1>>, <<497, 497, 1, 2>>, <<498, 500, 2, 1>>,
      <<502, 502, 1, -97>>, <<503, 503, 1, -56>>, <<504, 542, 2, 1>>,
      <<544, 544, 1, -130>>, <<546, 562, 2, 1>>, <<570, 570, 1, 10795>>,
      <<571, 571, 1, 1>>, <<573, 573, 1, -163>>, <<574, 574, 1, 10792>>,
      <<577, 577, 1, 1>>, <<579, 579, 1, -195>>, <<580, 580, 1, 69>>,
      <<581, 581, 1, 71>>, <<582, 590, 2, 1>>, <<880, 882, 2, 1>>,
      <<886, 886, 1, 1>>, <<895, 895, 1, 116>>, <<902, 902, 1, 38>>,
      <<904, 906, 1, 37>>, <<908, 908, 1, 64>>, <<910, 911, 1, 63>>,
      <<913, 929, 1, 32>>, <<932, 939, 1, 32>>, <<975, 975, 1, 8>>,
      <<984, 1006, 2, 1>>, <<1012, 1012, 1, -60>>, <<1015, 1015, 1, 1>>,
      <<1017, 1017, 1, -7>>, <<1018, 1018, 1, 1>>, <<1021, 1023, 1, -130>>,
      <<1024, 1039, 1, 80>>, <<1040, 1071, 1, 32>>, <<1120, 1152, 2, 1>>,
      <<1162, 1214, 2, 1>>, <<1216, 1216, 1, 15>>, <<1217, 1229, 2, 1>>,
      <<1232, 1326, 2, 1>>, <<1329, 1366, 1, 48>>, <<4256, 4293, 1, 7264>>,
      <<4295, 4295, 1, 7264>>, <<4301, 4301, 1, 7264>>,
      <<5024, 5103, 1, 38864>>, <<5104, 5109, 1, 8>>,
      <<7312, 7354, 1, -3008>>, <<7357, 7359, 1, -3008>>,
      <<7680, 7828, 2, 1>>, <<7838, 7838, 1, -7615>>, <<7840, 7934, 2, 1>>,
      <<7944, 7951, 1, -8>>, <<7960, 7965, 1, -8>>, <<7976, 7983, 1, -8>>,
      <<7992, 7999, 1, -8>>, <<8008, 8013, 1, -8>>, <<8025, 8031, 2, -8>>,
      <<8040, 8047, 1, -8>>, <<8072, 8079, 1, -8>>, <<8088, 8095, 1, -8>>,
      <<8104, 8111, 1, -8>>, <<8120, 8121, 1, -8>>, <<8122, 8123, 1, -74>>,
      <<8124, 8124, 1, -9>>, <<8136, 8139, 1, -86>>, <<8140, 8140, 1, -9>>,
      <<8152, 8153, 1, -8>>, <<8154, 8155, 1, -100>>, <<8168, 8169, 1, -8>>,
      <<8170, 8171, 1, -112>>, <<8172, 8172, 1, -7>>, <<8184, 8185, 1, -128>>,
      <<8186, 8187, 1, -126>>, <<8188, 8188, 1, -9>>,
      <<8486, 8486, 1, -7517>>, <<8490, 8490, 1, -8383>>,
      <<8491, 8491, 1, -8262>>, <<8498, 8498, 1, 28>>, <<8544, 8559, 1, 16>>,
      <<8579, 8579, 1, 1>>, <<9398, 9423, 1, 26>>, <<11264, 11311, 1, 48>>,
      <<11360, 11360, 1, 1>>, <<11362, 11362, 1, -10743>>,
      <<11363, 11363, 1, -3814>>, <<11364, 11364, 1, -10727>>,
      <<11367, 11371, 2, 1>>, <<11373, 11373, 1, -10780>>,
      <<11374, 11374, 1, -10749>>, <<11375, 11375, 1, -10783>>,
      <<11376, 11376, 1, -10782>>, <<11378, 11378, 1, 1>>,
      <<11381, 11381, 1, 1>>, <<11390, 11391, 1, -10815>>,
      <<11392, 11490, 2, 1>>, <<11499, 11501, 2, 1>>, <<11506, 11506, 1, 1>>,
      <<42560, 42604, 2, 1>>, <<42624, 42650, 2, 1>>, <<42786, 42798, 2, 1>>,
      <<42802, 42862, 2, 1>>, <<42873, 42875, 2, 1>>,
      <<42877, 42877, 1, -35332>>, <<42878, 42886, 2, 1>>,
      <<42891, 42891, 1, 1>>, <<42893, 42893, 1, -42280>>,
      <<42896, 42898, 2, 1>>, <<42902, 42920, 2, 1>>,
      <<42922, 42922, 1, -42308>>, <<42923, 42923, 1, -42319>>,
      <<42924, 42924, 1, -42315>>, <<42925, 42925, 1, -42305>>,
      <<42926, 42926, 1, -42308>>, <<42928, 42928, 1, -42258>>,
      <<42929, 42929, 1, -42282>>, <<42930, 42930, 1, -42261>>,
      <<42931, 42931, 1, 928>>, <<42932, 42946, 2, 1>>,
      <<42948, 42948, 1, -48>>, <<42949, 42949, 1, -42307>>,
      <<42950, 42950, 1, -35384>>, <<42951, 42953, 2, 1>>,
      <<42960, 42960, 1, 1>>, <<42966, 42968, 2, 1>>, <<42997, 42997, 1, 1>>,
      <<65313, 65338, 1, 32>>, <<66560, 66599, 1, 40>>,
      <<66736, 66771, 1, 40>>, <<66928, 66964, 2, 39>>,
      <<66929, 66937, 2, 39>>, <<66941, 66953, 2, 39>>,
      <<66957, 66961, 2, 39>>, <<66965, 66965, 1, 39>>,
      <<68736, 68786, 1, 64>>, <<71840, 71871, 1, 32>>,
      <<93760, 93791, 1, 32>>, <<125184, 125217, 1, 34>>>>

\* The capital sigma at position i becomes the final small sigma when a cased
\* character comes before it and none comes after it, case-ignorable
\* characters (marks, modifiers, the apostrophe, ...) being passed over;
\* `cased` holds the cased characters that are not passed over.
FinalSigma(t, i) ==
    LET ignorable ==
            <<<<39, 39>>, <<46, 46>>, <<58, 58>>, <<94, 94>>, <<96, 96>>,
              <<168, 168>>, <<173, 173>>, <<175, 175>>, <<180, 180>>,
              <<183, 184>>, <<688, 879>>, <<884, 885>>, <<890, 890>>,
              <<900, 901>>, <<903, 903>>, <<1155, 1161>>, <<1369, 1369>>,
              <<1375, 1375>>, <<1425, 1469>>, <<1471, 1471>>, <<1473, 1474>>,
              <<1476, 1477>>, <<1479, 1479>>, <<1524, 1524>>, <<1536, 1541>>,
              <<1552, 1562>>, <<1564, 1564>>, <<1600, 1600>>, <<1611, 1631>>,
              <<1648, 1648>>, <<1750, 1757>>, <<1759, 1768>>, <<1770, 1773>>,
              <<1807, 1807>>, <<1809, 1809>>, <<1840, 1866>>, <<1958, 1968>>,
              <<2027, 2037>>, <<2042, 2042>>, <<2045, 2045>>, <<2070, 2093>>,
              <<2137, 2139>>, <<2184, 2184>>, <<2192, 2193>>, <<2200, 2207>>,
              <<2249, 2306>>, <<2362, 2362>>, <<2364, 2364>>, <<2369, 2376>>,
              <<2381, 2381>>, <<2385, 2391>>, <<2402, 2403>>, <<2417, 2417>>,
              <<2433, 2433>>, <<2492, 2492>>, <<2497, 2500>>, <<2509, 2509>>,
              <<2530, 2531>>, <<2558, 2558>>, <<2561, 2562>>, <<2620, 2620>>,
              <<2625, 2626>>, <<2631, 2632>>, <<2635, 2637>>, <<2641, 2641>>,
              <<2672, 2673>>, <<2677, 2677>>, <<2689, 2690>>, <<2748, 2748>>,
              <<2753, 2757>>, <<2759, 2760>>, <<2765, 2765>>, <<2786, 2787>>,
              <<2810, 2815>>, <<2817, 2817>>, <<2876, 2876>>, <<2879, 2879>>,
              <<2881, 2884>>, <<2893, 2893>>, <<2901, 2902>>, <<2914, 2915>>,
              <<2946, 2946>>, <<3008, 3008>>, <<3021, 3021>>, <<3072, 3072>>,
              <<3076, 3076>>, <<3132, 3132>>, <<3134, 3136>>, <<3142, 3144>>,
              <<3146, 3149>>, <<3157, 3158>>, <<3170, 3171>>, <<3201, 3201>>,
              <<3260, 3260>>, <<3263, 3263>>, <<3270, 3270>>, <<3276, 3277>>,
              <<3298, 3299>>, <<3328, 3329>>, <<3387, 3388>>, <<3393, 3396>>,
              <<3405, 3405>>, <<3426, 3427>>, <<3457, 3457>>, <<3530, 3530>>,
              <<3538, 3540>>, <<3542, 3542>>, <<3633, 3633>>, <<3636, 3642>>,
              <<3654, 3662>>, <<3761, 3761>>, <<3764, 3772>>, <<3782, 3782>>,
              <<3784, 3789>>, <<3864, 3865>>, <<3893, 3893>>, <<3895, 3895>>,
              <<3897, 3897>>, <<3953, 3966>>, <<3968, 3972>>, <<3974, 3975>>,
              <<3981, 3991>>, <<3993, 4028>>, <<4038, 4038>>, <<4141, 4144>>,
              <<4146, 4151>>, <<4153, 4154>>, <<4157, 4158>>, <<4184, 4185>>,
              <<4190, 4192>>, <<4209, 4212>>, <<4226, 4226>>, <<4229, 4230>>,
              <<4237, 4237>>, <<4253, 4253>>, <<4348, 4348>>, <<4957, 4959>>,
              <<5906, 5908>>, <<5938, 5939>>, <<5970, 5971>>, <<6002, 6003>>,
              <<6068, 6069>>, <<6071, 6077>>, <<6086, 6086>>, <<6089, 6099>>,
              <<6103, 6103>>, <<6109, 6109>>, <<6155, 6159>>, <<6211, 6211>>,
              <<6277, 6278>>, <<6313, 6313>>, <<6432, 6434>>, <<6439, 6440>>,
              <<6450, 6450>>, <<6457, 6459>>, <<6679, 6680>>, <<6683, 6683>>,
              <<6742, 6742>>, <<6744, 6750>>, <<6752, 6752>>, <<6754, 6754>>,
              <<6757, 6764>>, <<6771, 6780>>, <<6783, 6783>>, <<6823, 6823>>,
              <<6832, 6862>>, <<6912, 6915>>, <<6964, 6964>>, <<6966, 6970>>,
              <<6972, 6972>>, <<6978, 6978>>, <<7019, 7027>>, <<7040, 7041>>,
              <<7074, 7077>>, <<7080, 7081>>, <<7083, 7085>>, <<7142, 7142>>,
              <<7144, 7145>>, <<7149, 7149>>, <<7151, 7153>>, <<7212, 7219>>,
              <<7222, 7223>>, <<7288, 7293>>, <<7376, 7378>>, <<7380, 7392>>,
              <<7394, 7400>>, <<7405, 7405>>, <<7412, 7412>>, <<7416, 7417>>,
              <<7468, 7530>>, <<7544, 7544>>, <<7579, 7679>>, <<8125, 8125>>,
              <<8127, 8129>>, <<8141, 8143>>, <<8157, 8159>>, <<8173, 8175>>,
              <<8189, 8190>>, <<8203, 8207>>, <<8216, 8217>>, <<8228, 8228>>,
              <<8231, 8231>>, <<8234, 8238>>, <<8288, 8292>>, <<8294, 8303>>,
              <<8305, 8305>>, <<8319, 8319>>, <<8336, 8348>>, <<8400, 8432>>,
              <<11388, 11389>>, <<11503, 11505>>, <<11631, 11631>>,
              <<11647, 11647>>, <<11744, 11775>>, <<11823, 11823>>,
              <<12293, 12293>>, <<12330, 12333>>, <<12337, 12341>>,
              <<12347, 12347>>, <<12441, 12446>>, <<12540, 12542>>,
              <<40981, 40981>>, <<42232, 42237>>, <<42508, 42508>>,
              <<42607, 42610>>, <<42612, 42621>>, <<42623, 42623>>,
              <<42652, 42655>>, <<42736, 42737>>, <<42752, 42785>>,
              <<42864, 42864>>, <<42888, 42890>>, <<42994, 42996>>,
              <<43000, 43001>>, <<43010, 43010>>, <<43014, 43014>>,
              <<43019, 43019>>, <<43045, 43046>>, <<43052, 43052>>,
              <<43204, 43205>>, <<43232, 43249>>, <<43263, 43263>>,
              <<43302, 43309>>, <<43335, 43345>>, <<43392, 43394>>,
              <<43443, 43443>>, <<43446, 43449>>, <<43452, 43453>>,
              <<43471, 43471>>, <<43493, 43494>>, <<43561, 43566>>,
              <<43569, 43570>>, <<43573, 43574>>, <<43587, 43587>>,
              <<43596, 43596>>, <<43632, 43632>>, <<43644, 43644>>,
              <<43696, 43696>>, <<43698, 43700>>, <<43703, 43704>>,
              <<43710, 43711>>, <<43713, 43713>>, <<43741, 43741>>,
              <<43756, 43757>>, <<43763, 43764>>, <<43766, 43766>>,
              <<43867, 43871>>, <<43881, 43883>>, <<44005, 44005>>,
              <<44008, 44008>>, <<44013, 44013>>, <<64286, 64286>>,
              <<64434, 64450>>, <<65024, 65039>>, <<65043, 65043>>,
              <<65056, 65071>>, <<65106, 65106>>, <<65109, 65109>>,
              <<65279, 65279>>, <<65287, 65287>>, <<65294, 65294>>,
              <<65306, 65306>>, <<65342, 65342>>, <<65344, 65344>>,
              <<65392, 65392>>, <<65438, 65439>>, <<65507, 65507>>,
              <<65529, 65531>>, <<66045, 66045>>, <<66272, 66272>>,
              <<66422, 66426>>, <<67456, 67461>>, <<67463, 67504>>,
              <<67506, 67514>>, <<68097, 68099>>, <<68101, 68102>>,
              <<68108, 68111>>, <<68152, 68154>>, <<68159, 68159>>,
              <<68325, 68326>>, <<68900, 68903>>, <<69291, 69292>>,
              <<69446, 69456>>, <<69506, 69509>>, <<69633, 69633>>,
              <<69688, 69702>>, <<69744, 69744>>, <<69747, 69748>>,
              <<69759, 69761>>, <<69811, 69814>>, <<69817, 69818>>,
              <<69821, 69821>>, <<69826, 69826>>, <<69837, 69837>>,
              <<69888, 69890>>, <<69927, 69931>>, <<69933, 69940>>,
              <<70003, 70003>>, <<70016, 70017>>, <<70070, 70078>>,
              <<70089, 70092>>, <<70095, 70095>>, <<70191, 70193>>,
              <<70196, 70196>>, <<70198, 70199>>, <<70206, 70206>>,
              <<70367, 70367>>, <<70371, 70378>>, <<70400, 70401>>,
              <<70459, 70460>>, <<70464, 70464>>, <<70502, 70508>>,
              <<70512, 70516>>, <<70712, 70719>>, <<70722, 70724>>,
              <<70726, 70726>>, <<70750, 70750>>, <<70835, 70840>>,
              <<70842, 70842>>, <<70847, 70848>>, <<70850, 70851>>,
              <<71090, 71093>>, <<71100, 71101>>, <<71103, 71104>>,
              <<71132, 71133>>, <<71219, 71226>>, <<71229, 71229>>,
              <<71231, 71232>>, <<71339, 71339>>, <<71341, 71341>>,
              <<71344, 71349>>, <<71351, 71351>>, <<71453, 71455>>,
              <<71458, 71461>>, <<71463, 71467>>, <<71727, 71735>>,
              <<71737, 71738>>, <<71995, 71996>>, <<71998, 71998>>,
              <<72003, 72003>>, <<72148, 72151>>, <<72154, 72155>>,
              <<72160, 72160>>, <<72193, 72202>>, <<72243, 72248>>,
              <<72251, 72254>>, <<72263, 72263>>, <<72273, 72278>>,
              <<72281, 72283>>, <<72330, 72342>>, <<72344, 72345>>,
              <<72752, 72758>>, <<72760, 72765>>, <<72767, 72767>>,
              <<72850, 72871>>, <<72874, 72880>>, <<72882, 72883>>,
              <<72885, 72886>>, <<73009, 73014>>, <<73018, 73018>>,
              <<73020, 73021>>, <<73023, 73029>>, <<73031, 73031>>,
              <<73104, 73105>>, <<73109, 73109>>, <<73111, 73111>>,
              <<73459, 73460>>, <<78896, 78904>>, <<92912, 92916>>,
              <<92976, 92982>>, <<92992, 92995>>, <<94031, 94031>>,
              <<94095, 94111>>, <<94176, 94177>>, <<94179, 94180>>,
              <<110576, 110579>>, <<110581, 110587>>, <<110589, 110590>>,
              <<113821, 113822>>, <<113824, 113827>>, <<118528, 118573>>,
              <<118576, 118598>>, <<119143, 119145>>, <<119155, 119170>>,
              <<119173, 119179>>, <<119210, 119213>>, <<119362, 119364>>,
              <<121344, 121398>>, <<121403, 121452>>, <<121461, 121461>>,
              <<121476, 121476>>, <<121499, 121503>>, <<121505, 121519>>,
              <<122880, 122886>>, <<122888, 122904>>, <<122907, 122913>>,
              <<122915, 122916>>, <<122918, 122922>>, <<123184, 123197>>,
              <<123566, 123566>>, <<123628, 123631>>, <<125136, 125142>>,
              <<125252, 125259>>, <<127995, 127999>>, <<917505, 917505>>,
              <<917536, 917631>>, <<917760, 917999>>>>
        cased ==
            <<<<65, 90>>, <<97, 122>>, <<170, 170>>, <<181, 181>>,
              <<186, 186>>, <<192, 214>>, <<216, 246>>, <<248, 442>>,
              <<444, 447>>, <<452, 659>>, <<661, 687>>, <<880, 883>>,
              <<886, 887>>, <<891, 893>>, <<895, 895>>, <<902, 902>>,
              <<904, 906>>, <<908, 908>>, <<910, 929>>, <<931, 1013>>,
              <<1015, 1153>>, <<1162, 1327>>, <<1329, 1366>>, <<1376, 1416>>,
              <<4256, 4293>>, <<4295, 4295>>, <<4301, 4301>>, <<4304, 4346>>,
              <<4349, 4351>>, <<5024, 5109>>, <<5112, 5117>>, <<7296, 7304>>,
              <<7312, 7354>>, <<7357, 7359>>, <<7424, 7467>>, <<7531, 7543>>,
              <<7545, 7578>>, <<7680, 7957>>, <<7960, 7965>>, <<7968, 8005>>,
              <<8008, 8013>>, <<8016, 8023>>, <<8025, 8025>>, <<8027, 8027>>,
              <<8029, 8029>>, <<8031, 8061>>, <<8064, 8116>>, <<8118, 8124>>,
              <<8126, 8126>>, <<8130, 8132>>, <<8134, 8140>>, <<8144, 8147>>,
              <<8150, 8155>>, <<8160, 8172>>, <<8178, 8180>>, <<8182, 8188>>,
              <<8450, 8450>>, <<8455, 8455>>, <<8458, 8467>>, <<8469, 8469>>,
              <<8473, 8477>>, <<8484, 8484>>, <<8486, 8486>>, <<8488, 8488>>,
              <<8490, 8493>>, <<8495, 8500>>, <<8505, 8505>>, <<8508, 8511>>,
              <<8517, 8521>>, <<8526, 8526>>, <<8544, 8575>>, <<8579, 8580>>,
              <<9398, 9449>>, <<11264, 11387>>, <<11390, 11492>>,
              <<11499, 11502>>, <<11506, 11507>>, <<11520, 11557>>,
              <<11559, 11559>>, <<11565, 11565>>, <<42560, 42605>>,
              <<42624, 42651>>, <<42786, 42863>>, <<42865, 42887>>,
              <<42891, 42894>>, <<42896, 42954>>, <<42960, 42961>>,
              <<42963, 42963>>, <<42965, 42969>>, <<42997, 42998>>,
              <<43002, 43002>>, <<43824, 43866>>, <<43872, 43880>>,
              <<43888, 43967>>, <<64256, 64262>>, <<64275, 64279>>,
              <<65313, 65338>>, <<65345, 65370>>, <<66560, 66639>>,
              <<66736, 66771>>, <<66776, 66811>>, <<66928, 66938>>,
              <<66940, 66954>>, <<66956, 66962>>, <<66964, 66965>>,
              <<66967, 66977>>, <<66979, 66993>>, <<66995, 67001>>,
              <<67003, 67004>>, <<68736, 68786>>, <<68800, 68850>>,
              <<71840, 71903>>, <<93760, 93823>>, <<119808, 119892>>,
              <<119894, 119964>>, <<119966, 119967>>, <<119970, 119970>>,
              <<119973, 119974>>, <<119977, 119980>>, <<119982, 119993>>,
              <<119995, 119995>>, <<119997, 120003>>, <<120005, 120069>>,
              <<120071, 120074>>, <<120077, 120084>>, <<120086, 120092>>,
              <<120094, 120121>>, <<120123, 120126>>, <<120128, 120132>>,
              <<120134, 120134>>, <<120138, 120144>>, <<120146, 120485>>,
              <<120488, 120512>>, <<120514, 120538>>, <<120540, 120570>>,
              <<120572, 120596>>, <<120598, 120628>>, <<120630, 120654>>,
              <<120656, 120686>>, <<120688, 120712>>, <<120714, 120744>>,
              <<120746, 120770>>, <<120772, 120779>>, <<122624, 122633>>,
              <<122635, 122654>>, <<125184, 125251>>, <<127280, 127305>>,
              <<127312, 127337>>, <<127344, 127369>>>>
        before == {j \in 1..(i - 1) : ~InRanges(ignorable, t[j], 1, Len(ignorable))}
        after == {j \in (i + 1)..Len(t) : ~InRanges(ignorable, t[j], 1, Len(ignorable))}
    IN  /\ before # {}
        /\ InRanges(cased, t[CHOOSE j \in before : \A k \in before : k <= j], 1, Len(cased))
        /\ \/ after = {}
           \/ ~InRanges(cased, t[CHOOSE j \in after : \A k \in after : j <= k], 1,
                         Len(cased))

\* str.lower() on the character at position i of a text: the code points it
\* becomes (two for the capital I with a dot, U+0130).
Lower(t, i) ==
    LET c == t[i]
        rules == {n \in 1..Len(LowerRules) :
                     /\ LowerRules[n][1] <= c /\ c <= LowerRules[n][2]
                     /\ (c - LowerRules[n][1]) % LowerRules[n][3] = 0}
    IN  IF c < 128 THEN <<IF 65 <= c /\ c <= 90 THEN c + 32 ELSE c>>
        ELSE IF c < 256 THEN <<IF 192 <= c /\ c <= 222 /\ c # 215 THEN c + 32 ELSE c>>
        ELSE IF c = 304 THEN <<105, 775>>
        ELSE IF c = 931 THEN (IF FinalSigma(t, i) THEN <<962>> ELSE <<963>>)
        ELSE IF rules = {} THEN <<c>>
        ELSE <<c + LowerRules[CHOOSE n \in rules : TRUE][4]>>

\* str.lower(), lines 197-198.
LowerText(t) ==
    LET RECURSIVE LowerFrom(_)
        LowerFrom(i) == IF i > Len(t) THEN <<>> ELSE Lower(t, i) \o LowerFrom(i + 1)
    IN  IF \A i \in 1..Len(t) : t[i] # 304 THEN [i \in 1..Len(t) |-> Lower(t, i)[1]]
        ELSE LowerFrom(1)

\* The unit alternatives of the pattern of line 169, optional letters spelled
\* out: g, kg, ml, l, cl, dl, el, tl, eetlepel(s), theelepel(s), stuk(s),
\* snuf, snufje, takje(s), tene(n), blaadje(s), plakje(s), schijfje(s),
\* blikje(s), zakje(s), potje(s).
Units ==
    {<<103>>, <<107, 103>>, <<109, 108>>, <<108>>, <<99, 108>>, <<100, 108>>,
     <<101, 108>>, <<116, 108>>,
     <<101, 101, 116, 108, 101, 112, 101, 108, 115>>,
     <<101, 101, 116, 108, 101, 112, 101, 108>>,
     <<116, 104, 101, 101, 108, 101, 112, 101, 108, 115>>,
     <<116, 104, 101, 101, 108, 101, 112, 101, 108>>,
     <<115, 116, 117, 107, 115>>, <<115, 116, 117, 107>>,
     <<115, 110, 117, 102>>, <<115, 110, 117, 102, 106, 101>>,
     <<116, 97, 107, 106, 101, 115>>, <<116, 97, 107, 106, 101>>,
     <<116, 101, 110, 101, 110>>, <<116, 101, 110, 101>>,
     <<98, 108, 97, 97, 100, 106, 101, 115>>,
     <<98, 108, 97, 97, 100, 106, 101>>, <<112, 108, 97, 107, 106, 101, 115>>,
     <<112, 108, 97, 107, 106, 101>>,
     <<115, 99, 104, 105, 106, 102, 106, 101, 115>>,
     <<115, 99, 104, 105, 106, 102, 106, 101>>,
     <<98, 108, 105, 107, 106, 101, 115>>, <<98, 108, 105, 107, 106, 101>>,
     <<122, 97, 107, 106, 101, 115>>, <<122, 97, 107, 106, 101>>,
     <<112, 111, 116, 106, 101, 115>>, <<112, 111, 116, 106, 101>>}

\* The code points of the display texts.
Spelling ==
    ("2 uien" :> <<50, 32, 117, 105, 101, 110>>) @@
    ("1 l melk" :> <<49, 32, 108, 32, 109, 101, 108, 107>>) @@
    ("Rode UI fijn" :> <<82, 111, 100, 101, 32, 85, 73, 32, 102, 105, 106, 110>>) @@
    ("verse ui" :> <<118, 101, 114, 115, 101, 32, 117, 105>>) @@
    ("rode uien" :> <<114, 111, 100, 101, 32, 117, 105, 101, 110>>) @@
    ("ui rood" :> <<117, 105, 32, 114, 111, 111, 100>>) @@
    ("fijn zout" :> <<102, 105, 106, 110, 32, 122, 111, 117, 116>>) @@
    ("rode ui" :> <<114, 111, 100, 101, 32, 117, 105>>) @@
    ("uien" :> <<117, 105, 101, 110>>) @@
    ("2 el UI" :> <<50, 32, 101, 108, 32, 85, 73>>) @@
    ("1 kg rode ui fijn" :> <<49, 32, 107, 103, 32, 114, 111, 100, 101, 32, 117, 105, 32, 102, 105, 106, 110>>) @@
    ("ui, vers" :> <<117, 105, 44, 32, 118, 101, 114, 115>>) @@
    ("2 g" :> <<50, 32, 103>>) @@
    ("- a b -" :> <<45, 32, 97, 32, 98, 32, 45>>) @@
    ("u" :> <<117>>) @@
    ("1,5 kg. Ui-" :> <<49, 44, 53, 32, 107, 103, 46, 32, 85, 105, 45>>) @@
    ("2 gram ui" :> <<50, 32, 103, 114, 97, 109, 32, 117, 105>>) @@
    ("ui (rood)" :> <<117, 105, 32, 40, 114, 111, 111, 100, 41>>) @@
    ("1/2 ui" :> <<49, 47, 50, 32, 117, 105>>) @@
    ("2 gélatineblaadjes" :> <<50, 32, 103, 233, 108, 97, 116, 105, 110, 101, 98, 108, 97, 97, 100, 106, 101, 115>>) @@
    ("2\tel ui" :> <<50, 9, 101, 108, 32, 117, 105>>) @@
    ("2 el UI" :> <<50, 160, 101, 108, 32, 85, 73>>) @@
    ("Één ui" :> <<201, 233, 110, 32, 117, 105>>) @@
    ("ÉÉN ui vers" :> <<201, 201, 78, 32, 117, 105, 32, 118, 101, 114, 115>>) @@
    ("crème fraîche" :> <<99, 114, 232, 109, 101, 32, 102, 114, 97, 238, 99, 104, 101>>) @@
    ("1½ EL ui\n" :> <<49, 189, 32, 69, 76, 32, 117, 105, 10>>) @@
    ("Ui rood" :> <<85, 105, 160, 114, 111, 111, 100>>) @@
    ("2 góregano" :> <<50, 32, 103, 243, 114, 101, 103, 97, 110, 111>>) @@
    ("2<VT>el ui" :> <<50, 11, 101, 108, 32, 117, 105>>) @@
    ("1 l² ui" :> <<49, 32, 108, 178, 32, 117, 105>>) @@
    ("Óf ui" :> <<211, 102, 32, 117, 105>>) @@
    ("ui<NEL>rood" :> <<117, 105, 133, 114, 111, 111, 100>>) @@
    ("ΟΔΟΣ ui" :> <<927, 916, 927, 931, 32, 117, 105>>) @@
    ("<arabic 3> kg ui" :> <<1635, 32, 107, 103, 32, 117, 105>>) @@
    ("2 <long s>tuks ui" :> <<50, 32, 383, 116, 117, 107, 115, 32, 117, 105>>)

\* The shortest keyword, and the shortest cleaned text, that counts (lines 177, 181).
MinKeywordLen == 2

\* The number of suggestions returned (line 229).
TopN == 5

\* The last position of the run of characters of `class` that starts at i
\* (i - 1 when there is none).
RECURSIVE RunEnd(_, _, _)
RunEnd(t, i, class) ==
    IF i > Len(t) \/ t[i] \notin class THEN i - 1 ELSE RunEnd(t, i + 1, class)

\* The unit u is spelled at position i, whatever the case (re.IGNORECASE): a
\* letter of the pattern matches itself, its capital and, for i, k and s, the
\* characters that re folds onto them (U+0130, U+0131, U+212A, U+017F).
StartsWith(t, i, u) ==
    /\ i + Len(u) - 1 <= Len(t)
    /\ \A k \in 1..Len(u) :
          LET c == t[i + k - 1]
          IN  \/ c = u[k]
              \/ c = u[k] - 32
              \/ u[k] = 105 /\ c \in {304, 305}
              \/ u[k] = 107 /\ c = 8490
              \/ u[k] = 115 /\ c = 383

\* \b after the letter at position j: the text ends there or goes on with a
\* character that is not of \w.
BoundaryAfter(t, j) == j = Len(t) \/ ~InRanges(WordChars, t[j + 1], 1, Len(WordChars))

\* The last position of the match of [\d.,]+\s*(unit)\b that starts at i, or
\* 0 when none starts there.  The units that fit end at the same place: a
\* unit is made of letters, and \b holds between no two letters.
MatchEnd(t, i) ==
    IF t[i] \notin NumChars THEN 0
    ELSE LET k == RunEnd(t, RunEnd(t, i, NumChars) + 1, SpaceChars) + 1
             us == {u \in Units : StartsWith(t, k, u) /\ BoundaryAfter(t, k + Len(u) - 1)}
         IN  IF us = {} THEN 0
             ELSE k + Len(CHOOSE u \in us : TRUE) - 1

\* re.sub(pattern, "", text) from position i on: every match removed, from
\* left to right.
RECURSIVE StripUnitsFrom(_, _)
StripUnitsFrom(t, i) ==
    IF i > Len(t) THEN <<>>
    ELSE IF MatchEnd(t, i) > 0 THEN StripUnitsFrom(t, MatchEnd(t, i) + 1)
    ELSE <<t[i]>> \o StripUnitsFrom(t, i + 1)

\* The characters of `class` removed from both ends.
RECURSIVE TrimRight(_, _)
TrimRight(t, class) ==
    IF Len(t) = 0 \/ t[Len(t)] \notin class THEN t
    ELSE TrimRight(SubSeq(t, 1, Len(t) - 1), class)

Trim(t, class) == TrimRight(SubSeq(t, RunEnd(t, 1, class) + 1, Len(t)), class)

\* Lines 168-175: the units stripped, then strip(), then the punctuation at
\* both ends.
Clean(t) == Trim(Trim(StripUnitsFrom(t, 1), SpaceChars), EdgeChars)

\* The last position of the run of characters that are no whitespace and
\* that starts at i.
RECURSIVE TokenEnd(_, _)
TokenEnd(t, i) ==
    IF i > Len(t) \/ t[i] \in SpaceChars THEN i - 1 ELSE TokenEnd(t, i + 1)

\* str.split() from position i on: the maximal runs of characters that are no
\* whitespace.
RECURSIVE SplitFrom(_, _)
SplitFrom(t, i) ==
    IF i > Len(t) THEN <<>>
    ELSE IF t[i] \in SpaceChars THEN SplitFrom(t, i + 1)
    ELSE <<SubSeq(t, i, TokenEnd(t, i))>> \o SplitFrom(t, TokenEnd(t, i) + 1)

\* Lines 168-183 on the characters of a query text: the keywords, none when
\* the cleaned text is too short.
Keywords(display) ==
    LET cleaned == Clean(Spelling[display])
    IN  IF Len(cleaned) < MinKeywordLen THEN <<>>
        ELSE SelectSeq(SplitFrom(cleaned, 1), LAMBDA w : Len(w) >= MinKeywordLen)

\* kw in text.
Contains(text, kw) ==
    \E i \in 1..(Len(text) - Len(kw) + 1) : \A k \in 1..Len(kw) : text[i + k - 1] = kw[k]

\* Lines 197-198.
MatchedKeywords(keywords, display) ==
    LET m_display_lower == LowerText(Spelling[display])
    IN  Cardinality({i \in 1..Len(keywords) :
                        Contains(m_display_lower, LowerText(keywords[i]))})

\* A faulty variant of Candidates: the rows of the query's own recipe are candidates too.
Candidates_AllRecipes(rows, slug) ==
    SelectSeq(rows, LAMBDA m : m.status \in {"mapped", "skipped"})

\* Lines 186-191: the rows of other recipes that carry a decision.
Candidates(rows, slug) ==
    SelectSeq(rows, LAMBDA m : m.recipe_slug # slug /\ m.status \in {"mapped", "skipped"})

\* Lines 210-220: the entry of a row; the score is the fraction num/den.
Suggestion(m, matched, total) ==
    [status |-> m.status,
     recipe_name |-> m.recipe_name,
     ingredient_display |-> m.ingredient_display,
     ah_product_id |-> m.ah_product_id,
     ah_product_name |-> m.ah_product_name,
     ah_product_image_url |-> m.ah_product_image_url,
     ah_product_unit_size |-> m.ah_product_unit_size,
     ah_product_price |-> m.ah_product_price,
     score |-> [num |-> matched, den |-> total]]

\* A faulty variant of Accepts: one matching keyword is enough.
Accepts_AnyMatch(matched, total) == matched >= 1

\* Line 209: score >= 0.5.
Accepts(matched, total) == 2 * matched >= total

\* A faulty variant of SeenKey: nothing is remembered as seen.
SeenKey_Forgets(m) == {}

\* Lines 221-224: what an accepted row adds to seen_products.
SeenKey(m) == IF m.status = "mapped" THEN {m.ah_product_id} ELSE {None}

\* Lines 197-224: one pass of the loop over the candidates.
ScoreRow(acc, m, keywords) ==
    LET matched == MatchedKeywords(keywords, m.ingredient_display)
    IN  IF matched = 0 THEN acc
        ELSE IF m.status = "mapped" /\ m.ah_product_id \in acc.seen THEN acc
        ELSE IF m.status = "skipped" /\ None \in acc.seen THEN acc
        ELSE IF Accepts(matched, Len(keywords))
        THEN [suggestions |-> Append(acc.suggestions, Suggestion(m, matched, Len(keywords))),
              seen |-> acc.seen \cup SeenKey(m)]
        ELSE acc

RECURSIVE ScoreFrom(_, _, _, _)
ScoreFrom(results, i, acc, keywords) ==
    IF i > Len(results) THEN acc
    ELSE ScoreFrom(results, i + 1, ScoreRow(acc, results[i], keywords), keywords)

\* A faulty variant of SortsBefore: skipped entries come first among equal scores.
SortsBefore_SkippedFirst(a, b) ==
    \/ a.score.num * b.score.den > b.score.num * a.score.den
    \/ /\ a.score.num * b.score.den = b.score.num * a.score.den
       /\ a.status # "mapped" /\ b.status = "mapped"

\* Line 227: the sort key (-score, status != "mapped") of a is smaller than b's.
SortsBefore(a, b) ==
    \/ a.score.num * b.score.den > b.score.num * a.score.den
    \/ /\ a.score.num * b.score.den = b.score.num * a.score.den
       /\ a.status = "mapped" /\ b.status # "mapped"

\* list.sort is stable: an entry goes behind every entry that does not sort
\* after it.
InsertSorted(sorted, x) ==
    LET later == {i \in 1..Len(sorted) : SortsBefore(x, sorted[i])}
        at == IF later = {} THEN Len(sorted) + 1
              ELSE CHOOSE i \in later : \A j \in later : i <= j
    IN  SubSeq(sorted, 1, at - 1) \o <<x>> \o SubSeq(sorted, at, Len(sorted))

RECURSIVE SortFrom(_, _, _)
SortFrom(list, i, sorted) ==
    IF i > Len(list) THEN sorted
    ELSE SortFrom(list, i + 1, InsertSorted(sorted, list[i]))

\* Lines 194-224: the accepted entries in iteration order.
Accepted(rows, display, slug) ==
    LET keywords == Keywords(display)
    IN  IF Len(keywords) = 0 THEN <<>>
        ELSE ScoreFrom(Candidates(rows, slug), 1,
                       [suggestions |-> <<>>, seen |-> {}], keywords).suggestions

\* mapping_suggestions: what the handler returns as "suggestions", the accepted
\* entries sorted (line 227) and cut to the first five (line 229).
Suggest(rows, display, slug) ==
    LET sorted == SortFrom(Accepted(rows, display, slug), 1, <<>>)
    IN  SubSeq(sorted, 1, IF Len(sorted) < TopN THEN Len(sorted) ELSE TopN)

\* GET /api/mapping/suggestions: the handler has no await.
MappingSuggestions(p, display, slug) ==
    /\ pc[p] = "idle"
    /\ pc' = [pc EXCEPT ![p] = "done"]
    /\ loc' = [loc EXCEPT ![p] =
                  [LocIdle EXCEPT !.call = "mapping_suggestions",
                                  !.args = <<display, slug>>,
                                  !.result = Suggest(store, display, slug)]]
    /\ out' = [out EXCEPT ![p] = Returns("", <<>>)]
    /\ UNCHANGED <<store, txn, settings, client, http>>

(***************************************************************************)
(* The suggestion engine over the tables saves can build: any selection of *)
(* the rows below, in the order given or in the reverse order.             *)
(***************************************************************************)
ProductNo(n) ==
    [ah_product_id |-> Some(n), ah_product_name |-> Some("product"),
     ah_product_image_url |-> Some("product.jpg"), ah_product_unit_size |-> Some("1 st"),
     ah_product_price |-> Some("2.00")]

\* The text part of a save form for a line of the given recipe.
LineText(slug, display) == [ingredient_display |-> display, recipe_name |-> "recept " \o slug]

SuggestRows ==
    <<SaveForm(<<"r2", "i1">>, "mapped", LineText("r2", "2 uien"), Onion, 1),
      SaveForm(<<"r1", "i1">>, "mapped", LineText("r1", "rode ui"), Milk, 1),
      SaveForm(<<"r2", "i2">>, "mapped", LineText("r2", "Rode UI fijn"), Onion, 1),
      SaveForm(<<"r3", "i1">>, "skipped", LineText("r3", "verse ui"), NoProduct, 1),
      SaveForm(<<"r3", "i2">>, "skipped", LineText("r3", "rode uien"), NoProduct, 1),
      SaveForm(<<"r3", "i3">>, "mapped", LineText("r3", "ui rood"), NoProduct, 1),
      SaveForm(<<"r2", "i3">>, "unmapped", LineText("r2", "uien"), NoProduct, 1),
      SaveForm(<<"r2", "i4">>, "mapped", LineText("r2", "rode ui"), ProductNo(300), 1),
      SaveForm(<<"r3", "i4">>, "mapped", LineText("r3", "rode uien"), ProductNo(400), 1),
      SaveForm(<<"r2", "i5">>, "mapped", LineText("r2", "uien"), ProductNo(500), 1),
      SaveForm(<<"r3", "i5">>, "mapped", LineText("r3", "ÉÉN ui vers"), Milk, 1),
      SaveForm(<<"r3", "i6">>, "skipped", LineText("r3", "2 uien"), Onion, 1)>>

Reverse(s) == [i \in 1..Len(s) |-> s[Len(s) + 1 - i]]

\* The rows of `rows` at the positions `keep`, in their order.
RECURSIVE PickFrom(_, _, _)
PickFrom(rows, keep, i) ==
    IF i > Len(rows) THEN <<>>
    ELSE (IF i \in keep THEN <<rows[i]>> ELSE <<>>) \o PickFrom(rows, keep, i + 1)

SuggestTables ==
    {PickFrom(rows, keep, 1) :
        rows \in {SuggestRows, Reverse(SuggestRows)}, keep \in SUBSET (1..Len(SuggestRows))}

SuggestQueries ==
    {"2 el UI", "1 kg rode ui fijn", "ui, vers", "rode ui", "2 g", "- a b -",
     "ui (rood)", "1/2 ui", "2 góregano", "2<VT>el ui", "2 el UI", "Één ui",
     "<arabic 3> kg ui", "1½ EL ui\n"}

\* The queries: every text for a line of recipe r1, and one for a line of r3.
SuggestInputs ==
    {<<display, "r1">> : display \in SuggestQueries} \cup {<<"2 el UI", "r3">>}

InitSuggest ==
    /\ store \in SuggestTables
    /\ txn = [p \in Procs |-> TxnIdle]
    /\ settings = SettingsInit
    /\ client = ClientInit
    /\ pc = [p \in Procs |-> "idle"]
    /\ loc = [p \in Procs |-> LocIdle]
    /\ http = [p \in Procs |-> <<>>]
    /\ out = [p \in Procs |-> NoOutcome]

NextSuggest ==
    \E p \in Serial :
        \/ \E q \in SuggestInputs : MappingSuggestions(p, q[1], q[2])
        \/ Return(p)

SpecSuggest == InitSuggest /\ [][NextSuggest]_vars

(***************************************************************************)
(* The meal-plan page, src/app/api/routes.py lines 311-406.  Dates are day *)
(* numbers; day 0 is a Monday.                                             *)
(***************************************************************************)
\* The number of days the page shows (line 339).
PageDays == 5

\* Lines 313-319: today when it is a Monday, else the next Monday.
PageMonday(today) ==
    LET days_until_monday == (DaysPerWeek - Weekday(today)) % DaysPerWeek
    IN  IF days_until_monday = 0 /\ Weekday(today) = 0 THEN today
        ELSE today + days_until_monday

PageRequest(start, end) ==
    [ev |-> "mealplans", start_date |-> IsoDate(start), end_date |-> IsoDate(end)]

DayNames == <<"Ma", "Di", "Wo", "Do", "Vr">>

\* Lines 343-348: the recipes of one day's entries, those with a slug.
DayRecipes(day_plans) ==
    LET withSlug == SelectSeq(day_plans, LAMBDA plan :
                        plan.recipe # None /\ plan.recipe[1].slug # "")
    IN  [k \in 1..Len(withSlug) |-> withSlug[k].recipe[1]]

\* Lines 330-349: the five days with the entries of their date.
Weekdays(plans, monday) ==
    [i \in 1..PageDays |->
        [name |-> DayNames[i],
         date |-> IsoDate(monday + i - 1),
         recipes |-> DayRecipes(SelectSeq(plans, LAMBDA plan :
                                    plan.date = IsoDate(monday + i - 1)))]]

\* Lines 355-365: the counts of the rows of one recipe.
MappingStats(rows, slug) ==
    [total |-> Len(SelectSeq(rows, LAMBDA m : m.recipe_slug = slug)),
     mapped |-> Len(SelectSeq(rows, LAMBDA m : m.recipe_slug = slug /\ m.status = "mapped")),
     skipped |-> Len(SelectSeq(rows, LAMBDA m : m.recipe_slug = slug /\ m.status = "skipped"))]

\* Lines 374-375: the recipe has rows and none of them lacks a decision.
RecipeDone(rows, slug) ==
    LET stats == MappingStats(rows, slug)
    IN  stats.total > 0 /\ ~(stats.total - stats.mapped - stats.skipped > 0)

\* Lines 368-378.
DayStatus(rows, recipes) ==
    IF Len(recipes) = 0 THEN "empty"
    ELSE IF \A k \in 1..Len(recipes) : RecipeDone(rows, recipes[k].slug) THEN "ready"
    ELSE "needs_mapping"

\* Lines 381-393: the rows of the planned recipes that go into the cart, and
\* those that are unmapped.  A product id of 0 is falsy.
PageSlugs(days) ==
    UNION {{days[i].recipes[k].slug : k \in 1..Len(days[i].recipes)} : i \in 1..Len(days)}

PageCartItems(rows, slugs) ==
    SelectSeq(rows, LAMBDA m : /\ m.recipe_slug \in slugs
                               /\ m.status = "mapped"
                               /\ m.ah_product_id # None /\ m.ah_product_id[1] # 0)

PageUnmapped(rows, slugs) ==
    SelectSeq(rows, LAMBDA m : /\ m.recipe_slug \in slugs
                               /\ ~(m.status = "mapped" /\ m.ah_product_id # None
                                    /\ m.ah_product_id[1] # 0)
                               /\ m.status = "unmapped")

\* The template context of the page.
PageContext(rows, st, plans, monday) ==
    LET days == Weekdays(plans, monday)
    IN  [weekdays |-> [i \in 1..PageDays |->
                          [name |-> days[i].name, date |-> days[i].date,
                           recipes |-> days[i].recipes,
                           status |-> DayStatus(rows, days[i].recipes)]],
         cart_items |-> PageCartItems(rows, PageSlugs(days)),
         unmapped_items |-> PageUnmapped(rows, PageSlugs(days)),
         has_token |-> GetSetting(st, "ah_user_token") # ""]

\* mealplan_page up to its await: the week and the request for its entries.
MealplanPageCall(p, today) ==
    /\ pc[p] = "idle"
    /\ pc' = [pc EXCEPT ![p] = "page"]
    /\ loc' = [loc EXCEPT ![p] = [LocIdle EXCEPT !.call = "mealplan_page",
                                                !.args = <<today>>]]
    /\ http' = [http EXCEPT ![p] =
                   <<PageRequest(PageMonday(today), PageMonday(today) + PageDays - 1)>>]
    /\ out' = [out EXCEPT ![p] = NoOutcome]
    /\ UNCHANGED <<store, txn, settings, client>>

\* mealplan_page from the gateway's answer on (lines 323-406): a failed fetch
\* reads as no entries; an object with keys makes the grouping loop raise,
\* the object {} reads as no entries.
PageResponse(p, resp) ==
    /\ pc[p] = "page"
    /\ LET got == GetMealplans(resp)
           plans == IF got.raised THEN <<>> ELSE got.plans
       IN  IF ~got.raised /\ LoopRaises(got)
           THEN /\ Finish(p, Raises("", MsgAttribute))
                /\ UNCHANGED loc
           ELSE /\ Finish(p, Returns("", <<>>))
                /\ loc' = [loc EXCEPT ![p].result =
                              PageContext(store, settings, plans, PageMonday(loc[p].args[1]))]
    /\ http' = [http EXCEPT ![p] = Append(@, Answer("mealplans", resp))]
    /\ UNCHANGED <<store, txn, settings, client>>

(***************************************************************************)
(* The page over the tables that saves build one at a time.                *)
(***************************************************************************)
PageForms ==
    {SaveForm(key, "mapped", OnionText, Onion, 1) : key \in Keys}
    \cup {SaveForm(key, "skipped", MilkText, NoProduct, 1) : key \in Keys}
    \cup {SaveForm(key, "unmapped", MilkText, NoProduct, 1) : key \in Keys}

\* The entry moved to day d.
OnDay(entry, d) == [entry EXCEPT !.date = IsoDate(d)]

\* The gateway's answers for the week that starts on `monday`.
PagePlans(monday) ==
    {PlansAnswer(Status(200), "list", <<>>),
     PlansAnswer(Status(200), "list", <<OnDay(Soup, monday)>>),
     PlansAnswer(Status(200), "envelope", <<OnDay(Soup, monday), OnDay(Stew, monday)>>),
     PlansAnswer(Status(200), "list", <<OnDay(Stew, monday + 1), OnDay(Soup, monday + 4)>>),
     PlansAnswer(Status(200), "list", <<OnDay(IdOnly, monday), OnDay(Stew, monday + DaysPerWeek)>>),
     PlansAnswer(Status(200), "object", <<>>),
     PlansAnswer(Status(200), "object", <<ObjectKey("detail")>>),
     PlansAnswer(Status(200), "empty", <<>>),
     PlansAnswer(Status(302), "list", <<OnDay(Soup, monday)>>),
     PlansAnswer(Status(500), "object", <<>>)}

\* The answers for the weeks the page can ask for.
PageAnswers == UNION {PagePlans(PageMonday(today)) : today \in Todays}

InitPage == InitCommon

NextPage ==
    \E p \in Serial :
        \/ \E form \in PageForms : SaveMapping(p, form)
        \/ \E today \in Todays : MealplanPageCall(p, today)
        \/ \E resp \in PageAnswers : PageResponse(p, resp)
        \/ Return(p)

SpecPage == InitPage /\ [][NextPage]_vars

(***************************************************************************)
(* get_mealplans called on its own, as the tests of the gateway client     *)
(* call it, over the answers of the gateway.                               *)
(***************************************************************************)
\* get_mealplans up to its await (lines 40-47).
CallGetMealplans(p, start, end) ==
    /\ pc[p] = "idle"
    /\ pc' = [pc EXCEPT ![p] = "mealplans"]
    /\ loc' = [loc EXCEPT ![p] = [LocIdle EXCEPT !.call = "get_mealplans",
                                                !.args = <<start, end>>]]
    /\ http' = [http EXCEPT ![p] = <<PageRequest(start, end)>>]
    /\ out' = [out EXCEPT ![p] = NoOutcome]
    /\ UNCHANGED <<store, txn, settings, client>>

\* get_mealplans from the answer on (lines 48-50): what the caller is handed.
MealplansResponse(p, resp) ==
    /\ pc[p] = "mealplans"
    /\ LET got == GetMealplans(resp)
       IN  IF got.raised
           THEN /\ Finish(p, Raises("", got.error))
                /\ UNCHANGED loc
           ELSE /\ Finish(p, Returns("", <<>>))
                /\ loc' = [loc EXCEPT ![p].result = [kind |-> got.kind, plans |-> got.plans]]
    /\ http' = [http EXCEPT ![p] = Append(@, Answer("mealplans", resp))]
    /\ UNCHANGED <<store, txn, settings, client>>

\* The entry lists of up to three entries of one week.
GatewayEntries == {OnDay(Soup, 0), OnDay(Stew, 1), OnDay(IdOnly, 2), OnDay(Note, 3)}

GatewayLists ==
    {<<>>} \cup {<<a>> : a \in GatewayEntries}
    \cup {<<a, b>> : a \in GatewayEntries, b \in GatewayEntries}
    \cup {<<a, b, c>> : a \in GatewayEntries, b \in GatewayEntries, c \in GatewayEntries}

GatewayAnswers ==
    {PlansAnswer(Status(200), shape, items) :
        shape \in {"list", "envelope"}, items \in GatewayLists}
    \cup {PlansAnswer(Status(200), "object", <<>>),
          PlansAnswer(Status(200), "object", <<ObjectKey("detail")>>),
          PlansAnswer(Status(200), "empty", <<>>),
          PlansAnswer(Status(302), "list", <<>>),
          PlansAnswer(Status(500), "object", <<>>),
          PlansAnswer(Transport, "object", <<>>)}

InitGateway == InitCommon

NextGateway ==
    \E p \in Serial :
        \/ CallGetMealplans(p, 0, PageDays - 1)
        \/ \E resp \in GatewayAnswers : MealplansResponse(p, resp)
        \/ Return(p)

SpecGateway == InitGateway /\ [][NextGateway]_vars

(***************************************************************************)
(* Two cart fills at once on the one AHClient of the process: each request *)
(* runs from await to await, and the two interleave at every await.        *)
(***************************************************************************)
RaceForm == SaveForm(<<"r1", "i1">>, "mapped", OnionText, Onion, 1)

RacePlans == PlansAnswer(Status(200), "list", <<Soup>>)

RaceRefreshes ==
    {RefreshAnswer(Status(401), RefreshBody(None, None))}
    \cup {RefreshAnswer(Status(200), RefreshBody(Some(a), Some(r))) :
            a \in FreshAccess, r \in FreshRefresh}

\* One mapped line of the soup is saved and a token pair is stored; from
\* there on only cart fills run.
InitRace ==
    /\ store = SaveResult(<<>>, RaceForm)
    /\ txn = [p \in Procs |-> TxnIdle]
    /\ settings = SetSetting(SetSetting(SettingsInit, "ah_user_token", "A0"),
                             "ah_refresh_token", "R0")
    /\ client = ClientInit
    /\ pc = [p \in Procs |-> "idle"]
    /\ loc = [p \in Procs |-> LocIdle]
    /\ http = [p \in Procs |-> <<>>]
    /\ out = [p \in Procs |-> NoOutcome]

NextRace ==
    \E p \in Procs :
        \/ FillCartCall(p, 0)
        \/ PlansResponse(p, RacePlans)
        \/ \E resp \in {Status(200), Status(401)} : CartResponse1(p, resp)
        \/ \E resp \in RaceRefreshes, fail \in CommitFailures : RefreshResponse(p, resp, fail)
        \/ RetryCart(p)
        \/ \E resp \in {Status(200), Status(401)} : CartResponse2(p, resp)
        \/ Return(p)

SpecRace == InitRace /\ [][NextRace]_vars

\* The two cart fills in flight together: both requests arrive before either
\* has got an answer, and no response is delivered, so every behaviour in
\* which both have arrived is an interleaving of two concurrent cart fills
\* and the logs of both stay.
NextOverlap ==
    \E p \in Procs :
        \/ (\A q \in Procs : pc[q] \in {"idle", "plans"}) /\ FillCartCall(p, 0)
        \/ PlansResponse(p, RacePlans)
        \/ \E resp \in {Status(200), Status(401)} : CartResponse1(p, resp)
        \/ \E resp \in RaceRefreshes, fail \in CommitFailures : RefreshResponse(p, resp, fail)
        \/ RetryCart(p)
        \/ \E resp \in {Status(200), Status(401)} : CartResponse2(p, resp)

SpecOverlap == InitRace /\ [][NextOverlap]_vars

(***************************************************************************)
(* Linking the retailer account: POST /settings/ah-code, routes.py lines   *)
(* 681-740.  The handler calls AHClient.exchange_code and                  *)
(* AHClient.get_login_url, which src/app/clients/ah.py does not define:    *)
(* with the client of the source tree both calls raise AttributeError.     *)
(* The handler is written once, over the set of methods the client has:    *)
(* ClientMethods is the client of the source tree (CodeExchangeCall,       *)
(* HealthResponse, SpecLogin); LinkMethods adds the two methods as the     *)
(* specification describes them (LinkCall, LinkPage, SpecLinked):          *)
(* exchange_code hands the code to the retailer's login endpoint and       *)
(* returns the token pair answered, or raises as the other calls of the    *)
(* client do; get_login_url returns the address of the login page and      *)
(* touches no state.                                                       *)
(***************************************************************************)
\* The methods of AHClient (ah.py lines 19-167).
ClientMethods ==
    {"_get_anonymous_token", "set_user_tokens", "set_user_token", "_refresh_user_token",
     "search_products", "add_to_cart"}

\* AHClient with the two methods routes.py calls besides.
LinkMethods == ClientMethods \cup {"exchange_code", "get_login_url"}

MsgPasteUrl == "Plak de URL uit je adresbalk."

\* Lines 708-715: the messages carry the status, or the exception's text.
MsgCodeInvalid(status) ==
    "Code ongeldig of verlopen (HTTP " \o ToString(status) \o "). Probeer opnieuw."

MsgLinkFailed(text) == "Koppelen mislukt: " \o text

MsgCommit == "OperationalError"

\* The form field callback_url after strip(): its text, and the value of the
\* query parameter "code" when the text is a URL that has one.
CallbackUrl(text, code) == [text |-> text, code |-> code]

\* Lines 691-701: the code of the URL's query, else the whole input.
CodeOf(url) == IF Truthy(url.code) THEN url.code[1] ELSE url.text

ExchangeRequest(code) == [ev |-> "exchange", code |-> code]

\* exchange_code from the answer of the login endpoint on.
ExchangeCode(resp) ==
    IF ~IsSuccess(resp)
    THEN [raised |-> TRUE, status |-> resp.status, data |-> RefreshBody(None, None)]
    ELSE [raised |-> FALSE, status |-> resp.status, data |-> resp.json]

\* A faulty variant of LinkFinish: the two tokens are stored under each
\* other's key.
LinkFinish_Swapped(st, got, fail) ==
    IF got.raised \/ got.data.access_token = None \/ got.data.refresh_token = None
       \/ fail # "none"
    THEN [settings |-> st, ok |-> FALSE, error |-> MsgLinkFailed(MsgKey)]
    ELSE [settings |-> SetSetting(SetSetting(st, "ah_user_token", got.data.refresh_token[1]),
                                  "ah_refresh_token", got.data.access_token[1]),
          ok |-> TRUE, error |-> ""]

\* Lines 704-715: the two _set_setting calls, each with its own commit, and
\* the outcome shown on the settings page.  `fail` says which commit raises.
LinkFinish(st, got, fail) ==
    IF got.raised
    THEN [settings |-> st, ok |-> FALSE,
          error |-> IF got.status # 0 THEN MsgCodeInvalid(got.status)
                    ELSE MsgLinkFailed(MsgTransport)]
    ELSE IF got.data.access_token = None
    THEN [settings |-> st, ok |-> FALSE, error |-> MsgLinkFailed(MsgKey)]
    ELSE IF fail = "first"
    THEN [settings |-> st, ok |-> FALSE, error |-> MsgLinkFailed(MsgCommit)]
    ELSE IF got.data.refresh_token = None \/ fail = "second"
    THEN [settings |-> SetSetting(st, "ah_user_token", got.data.access_token[1]),
          ok |-> FALSE,
          error |-> MsgLinkFailed(IF got.data.refresh_token = None THEN MsgKey
                                  ELSE MsgCommit)]
    ELSE [settings |-> SetSetting(SetSetting(st, "ah_user_token", got.data.access_token[1]),
                                  "ah_refresh_token", got.data.refresh_token[1]),
          ok |-> TRUE, error |-> ""]

\* The commits that can fail for this answer.
LinkFailuresFor(resp) ==
    IF IsSuccess(resp) /\ resp.json.access_token # None
    THEN IF resp.json.refresh_token # None THEN CommitFailures ELSE {"none", "first"}
    ELSE {"none"}

HealthRequest == [ev |-> "health"]

\* _render_settings up to its await (lines 724-727): the two token settings
\* are read, then the gateway is asked whether it is up.
RenderSettings(st, success, error) ==
    [ah_login_success |-> success, ah_login_error |-> error,
     ah_token_set |-> GetSetting(st, "ah_user_token") # "",
     ah_refresh_set |-> GetSetting(st, "ah_refresh_token") # ""]

\* health_check from the answer on (mealie.py lines 144-147).
HealthCheck(resp) == resp.net = "ok" /\ resp.status = 200

\* ah_code_exchange up to its first await (lines 687-727), for a client with
\* these methods: without input the settings page is rendered with a message;
\* a client without exchange_code raises AttributeError at line 704, which
\* line 713 turns into a message on the settings page; else the code is
\* exchanged.  _render_settings waits for the health check.
CodeExchangeStart(p, url, methods) ==
    /\ pc[p] = "idle"
    /\ out' = [out EXCEPT ![p] = NoOutcome]
    /\ IF url.text = "" \/ "exchange_code" \notin methods
       THEN /\ pc' = [pc EXCEPT ![p] = "health"]
            /\ loc' = [loc EXCEPT ![p] =
                          [LocIdle EXCEPT !.call = "ah_code_exchange", !.args = <<url>>,
                                          !.result = RenderSettings(settings, FALSE,
                                                        IF url.text = "" THEN MsgPasteUrl
                                                        ELSE MsgLinkFailed(MsgAttribute))]]
            /\ http' = [http EXCEPT ![p] = <<HealthRequest>>]
       ELSE /\ pc' = [pc EXCEPT ![p] = "exchange"]
            /\ loc' = [loc EXCEPT ![p] =
                          [LocIdle EXCEPT !.call = "ah_code_exchange", !.args = <<url>>]]
            /\ http' = [http EXCEPT ![p] = <<ExchangeRequest(CodeOf(url))>>]
    /\ UNCHANGED <<store, txn, settings, client>>

\* ah_code_exchange with the client of the source tree.
CodeExchangeCall(p, url) == CodeExchangeStart(p, url, ClientMethods)

\* ah_code_exchange with a client that has exchange_code.
LinkCall(p, url) == CodeExchangeStart(p, url, LinkMethods)

\* ah_code_exchange from the answer of the exchange to the await of
\* _render_settings (lines 704-715, 724-727).
ExchangeResponse(p, resp, fail) ==
    /\ pc[p] = "exchange"
    /\ fail \in LinkFailuresFor(resp)
    /\ LET r == LinkFinish(settings, ExchangeCode(resp), fail)
       IN  /\ settings' = r.settings
           /\ loc' = [loc EXCEPT ![p].result = RenderSettings(r.settings, r.ok, r.error)]
    /\ pc' = [pc EXCEPT ![p] = "health"]
    /\ http' = [http EXCEPT ![p] = @ \o <<Answer("exchange", resp), HealthRequest>>]
    /\ UNCHANGED <<store, txn, client, out>>

\* _render_settings from the answer of the health check on (lines 727-740),
\* for a client with these methods: a client without get_login_url raises
\* AttributeError at line 736, which nothing catches; else the settings page
\* is rendered with the outcome of the exchange.
SettingsPage(p, resp, methods) ==
    /\ pc[p] = "health"
    /\ IF "get_login_url" \notin methods
       THEN /\ Finish(p, [raised |-> TRUE, ok |-> FALSE, error |-> MsgAttribute,
                          items_added |-> 0])
            /\ UNCHANGED loc
       ELSE /\ Finish(p, [raised |-> FALSE, ok |-> loc[p].result.ah_login_success,
                          error |-> loc[p].result.ah_login_error, items_added |-> 0])
            /\ loc' = [loc EXCEPT ![p].result = [mealie_ok |-> HealthCheck(resp)] @@ @]
    /\ http' = [http EXCEPT ![p] = Append(@, Answer("health", resp))]
    /\ UNCHANGED <<store, txn, settings, client>>

\* _render_settings with the client of the source tree.
HealthResponse(p, resp) == SettingsPage(p, resp, ClientMethods)

\* _render_settings with a client that has get_login_url.
LinkPage(p, resp) == SettingsPage(p, resp, LinkMethods)

\* The answers to the health check.
HealthAnswers == {Transport, Status(200), Status(500)}

\* What the user pastes, and what the login endpoint answers.
LinkUrls ==
    {CallbackUrl("", None), CallbackUrl("appie://login-exit?code=C1", Some("C1")),
     CallbackUrl("C2", None)}

LinkAnswers ==
    {RefreshAnswer(Transport, RefreshBody(None, None)),
     RefreshAnswer(Status(400), RefreshBody(None, None)),
     RefreshAnswer(Status(302), RefreshBody(Some("AX"), Some("RX"))),
     RefreshAnswer(Status(200), RefreshBody(Some("AX"), None)),
     RefreshAnswer(Status(200), RefreshBody(Some("AX"), Some("RX"))),
     RefreshAnswer(Status(200), RefreshBody(Some("AY"), Some("RY")))}

\* One mapped line of the soup is saved and no token is stored yet.
InitLogin ==
    /\ store = SaveResult(<<>>, RaceForm)
    /\ txn = [p \in Procs |-> TxnIdle]
    /\ settings = SettingsInit
    /\ client = ClientInit
    /\ pc = [p \in Procs |-> "idle"]
    /\ loc = [p \in Procs |-> LocIdle]
    /\ http = [p \in Procs |-> <<>>]
    /\ out = [p \in Procs |-> NoOutcome]

LinkRefreshes ==
    {RefreshAnswer(Status(401), RefreshBody(None, None)),
     RefreshAnswer(Status(200), RefreshBody(Some("A1"), Some("R1")))}

\* The source tree as it is: the code of the form is never exchanged, the
\* settings page fails and no token is stored, so the cart fills in the two
\* request slots end before they call the client.
NextLogin ==
    \/ \E p \in Serial :
          \/ \E url \in LinkUrls : CodeExchangeCall(p, url)
          \/ \E resp \in HealthAnswers : HealthResponse(p, resp)
    \/ \E p \in Procs :
          \/ FillCartCall(p, 0)
          \/ PlansResponse(p, RacePlans)
          \/ Return(p)

SpecLogin == InitLogin /\ [][NextLogin]_vars

\* The account is linked in one request slot while cart fills run in both.
NextLinked ==
    \/ \E p \in Serial :
          \/ \E url \in LinkUrls : LinkCall(p, url)
          \/ \E resp \in LinkAnswers, fail \in CommitFailures : ExchangeResponse(p, resp, fail)
          \/ \E resp \in HealthAnswers : LinkPage(p, resp)
    \/ \E p \in Procs :
          \/ FillCartCall(p, 0)
          \/ PlansResponse(p, RacePlans)
          \/ \E resp \in {Status(200), Status(401)} : CartResponse1(p, resp)
          \/ \E resp \in LinkRefreshes : RefreshResponse(p, resp, "none")
          \/ RetryCart(p)
          \/ CartResponse2(p, Status(200))
          \/ Return(p)

SpecLinked == InitLogin /\ [][NextLinked]_vars

(***************************************************************************)
(* The meal-plan page and the cart fill on every weekday.                  *)
(***************************************************************************)
InitWeek == InitRace

NextWeek ==
    \E p \in Procs :
        \/ \E today \in Todays : MealplanPageCall(p, today)
        \/ \E resp \in PageAnswers : PageResponse(p, resp)
        \/ \E today \in Todays : FillCartCall(p, today)
        \/ PlansResponse(p, RacePlans)
        \/ CartResponse1(p, Status(200))
        \/ Return(p)

SpecWeek == InitWeek /\ [][NextWeek]_vars

(***************************************************************************)
(* The meal-plan page and the cart fill over the same table and the same   *)
(* answer of the gateway.                                                  *)
(***************************************************************************)
\* A product saved with the id 0.
Sample ==
    [ah_product_id |-> Some(0), ah_product_name |-> Some("proef"),
     ah_product_image_url |-> None, ah_product_unit_size |-> None,
     ah_product_price |-> None]

PreviewForms ==
    {SaveForm(<<"r1", "i1">>, "mapped", OnionText, Onion, 1),
     SaveForm(<<"r1", "i2">>, "mapped", MilkText, Sample, 1),
     SaveForm(<<"r1", "i2">>, "unmapped", MilkText, NoProduct, 1),
     SaveForm(<<"r2", "i1">>, "mapped", MilkText, Milk, 1),
     SaveForm(<<"r2", "i1">>, "skipped", MilkText, NoProduct, 1),
     SaveForm(<<"id-r3", "i1">>, "mapped", MilkText, Milk, 1)}

\* The tables that up to three saves build.
PreviewTables ==
    LET one == {SaveResult(<<>>, f) : f \in PreviewForms}
        two == {SaveResult(t, f) : t \in one, f \in PreviewForms}
        three == {SaveResult(t, f) : t \in two, f \in PreviewForms}
    IN  {<<>>} \cup one \cup two \cup three

\* The gateway's answers when asked for the week of day 0.
PreviewAnswers ==
    {PlansAnswer(Status(200), "list", <<>>),
     PlansAnswer(Status(200), "list", <<OnDay(Soup, 0)>>),
     PlansAnswer(Status(200), "envelope", <<OnDay(Soup, 0), OnDay(Stew, 4)>>),
     PlansAnswer(Status(200), "list", <<OnDay(Soup, 1), OnDay(Stew, DaysPerWeek)>>),
     PlansAnswer(Status(200), "list", <<OnDay(IdOnly, 2), OnDay(Note, 3)>>),
     PlansAnswer(Status(200), "object", <<>>),
     PlansAnswer(Status(500), "object", <<>>)}

InitPreview ==
    /\ store \in PreviewTables
    /\ txn = [p \in Procs |-> TxnIdle]
    /\ settings = SetSetting(SetSetting(SettingsInit, "ah_user_token", "A0"),
                             "ah_refresh_token", "R0")
    /\ client = ClientInit
    /\ pc = [p \in Procs |-> "idle"]
    /\ loc = [p \in Procs |-> LocIdle]
    /\ http = [p \in Procs |-> <<>>]
    /\ out = [p \in Procs |-> NoOutcome]

NextPreview ==
    \E p \in Procs :
        \/ MealplanPageCall(p, 0)
        \/ \E resp \in PreviewAnswers : PageResponse(p, resp)
        \/ FillCartCall(p, 0)
        \/ \E resp \in PreviewAnswers : PlansResponse(p, resp)
        \/ CartResponse1(p, Status(200))
        \/ Return(p)

SpecPreview == InitPreview /\ [][NextPreview]_vars

(***************************************************************************)
(* Claims about the retailer client, checked under SpecClient.             *)
(***************************************************************************)
\* The requests of one kind, and the answers to them, in a request's log.
Requests(log, kind) == SelectSeq(log, LAMBDA e : e.ev = kind)

Answers(log, to) == SelectSeq(log, LAMBDA e : e.ev = "answer" /\ e.to = to)

CallbackCalls(log) == SelectSeq(log, LAMBDA e : e.ev = "callback")

\* A refresh answer that hands out a token pair.
HandsOutPair(resp) ==
    IsSuccess(resp) /\ resp.json.access_token # None /\ resp.json.refresh_token # None

\* The last event of a log.
Last(log) == log[Len(log)]

Finished(p, call) == pc[p] = "done" /\ loc[p].call = call

\* The case of C4: the first cart request was answered 401, a refresh token was
\* at hand, and no later request of the call was answered with a failure.
CartRecoveryCase(p) ==
    /\ Finished(p, "add_to_cart")
    /\ Truthy(client.user_refresh_token)
    /\ LET ca == Answers(http[p], "cart")
           ra == Answers(http[p], "refresh")
       IN  /\ Len(ca) >= 1 /\ ca[1].resp = Status(401)
           /\ \A i \in 2..Len(ca) : ca[i].resp = Status(200)
           /\ \A i \in 1..Len(ra) : HandsOutPair(ra[i].resp)

\* C4: add_to_cart with an expired access token and a valid refresh token (401,
\* then a successful refresh, then 200) succeeds with one retry; afterwards the
\* tokens in memory, the bearer of the retry and the arguments of the
\* persistence callback (when one is registered) are the pair the refresh
\* endpoint returned.
C4_CartRecovery ==
    \A p \in Procs :
        CartRecoveryCase(p) =>
            LET ra == Answers(http[p], "refresh")
                cr == Requests(http[p], "cart")
                cb == CallbackCalls(http[p])
            IN  /\ out[p] = Returns(loc[p].caller, loc[p].cart)
                /\ Len(ra) = 1 /\ Len(cr) = 2
                /\ client.user_token = ra[1].resp.json.access_token
                /\ client.user_refresh_token = ra[1].resp.json.refresh_token
                /\ cr[2].bearer = ra[1].resp.json.access_token
                /\ IF client.on_tokens_updated = None THEN Len(cb) = 0
                   ELSE /\ Len(cb) = 1
                        /\ cb[1].fn = client.on_tokens_updated[1]
                        /\ Some(cb[1].access) = ra[1].resp.json.access_token
                        /\ Some(cb[1].refresh) = ra[1].resp.json.refresh_token

C4_Witness ==
    \E p \in Procs :
        /\ CartRecoveryCase(p)
        /\ out[p].ok
        /\ client.on_tokens_updated # None
        /\ Len(CallbackCalls(http[p])) = 1

\* C5: whatever the retailer answers, one add_to_cart call sends at most two
\* cart requests and at most one refresh request; a 401 on the retry ends the
\* call with an error.
C5_CartRetryBound ==
    \A p \in Procs :
        LET ca == Answers(http[p], "cart")
        IN  /\ Len(Requests(http[p], "cart")) <= 2
            /\ Len(Requests(http[p], "refresh")) <= 1
            /\ (Len(ca) >= 2 /\ ca[2].resp = Status(401)) =>
                   /\ pc[p] = "done"
                   /\ ~out[p].ok
                   /\ out[p].error = MsgHttp
                   /\ Len(Requests(http[p], "cart")) = 2

C5_Witness ==
    \E p \in Procs :
        LET ca == Answers(http[p], "cart")
        IN  /\ Finished(p, "add_to_cart")
            /\ Len(ca) = 2 /\ ca[2].resp = Status(401)
            /\ Len(Requests(http[p], "refresh")) = 1
            /\ out[p].raised

\* The case of C6: the first cart request was answered 401 and the refresh
\* failed: no refresh token was at hand, or the refresh endpoint did not hand
\* out a pair.
RefreshFailureCase(p) ==
    /\ Finished(p, "add_to_cart")
    /\ LET ca == Answers(http[p], "cart")
           ra == Answers(http[p], "refresh")
       IN  /\ Len(ca) >= 1 /\ ca[1].resp = Status(401)
           /\ \/ ~Truthy(client.user_refresh_token)
              \/ Len(ra) >= 1 /\ ~HandsOutPair(ra[1].resp)

\* C6: after a 401 and a failed refresh, add_to_cart fails with the "token
\* expired" error and the cart request is not sent a second time.
C6_RefreshFailure ==
    \A p \in Procs :
        RefreshFailureCase(p) =>
            /\ ~out[p].ok
            /\ out[p].error = MsgExpired
            /\ Len(Requests(http[p], "cart")) = 1
            /\ Len(Requests(http[p], "refresh")) <= 1

C6_Witness ==
    \E p \in Procs :
        /\ RefreshFailureCase(p)
        /\ Len(Answers(http[p], "refresh")) = 1
        /\ out[p].raised

\* C7: a call of add_to_cart while the client holds neither an access token nor
\* a refresh token ends at once with the "no token" error, sends no request and
\* leaves the client's fields as they were.
C7_NoToken ==
    [][\A p \in Procs :
          ( /\ pc[p] = "idle" /\ pc'[p] # "idle"
            /\ loc'[p].call = "add_to_cart"
            /\ ~Truthy(client.user_token)
            /\ ~Truthy(client.user_refresh_token) )
          => ( /\ pc'[p] = "done"
               /\ out'[p] = Raises(loc'[p].caller, MsgNoToken)
               /\ http'[p] = <<>>
               /\ client' = client )]_vars

C7_Witness ==
    \E p \in Procs :
        /\ Finished(p, "add_to_cart")
        /\ out[p].raised /\ out[p].error = MsgNoToken
        /\ http[p] = <<>>
        /\ ~Truthy(client.user_token) /\ ~Truthy(client.user_refresh_token)

\* The images of a product can be read: there are none (the key is missing or
\* its value is null, false, zero or empty), or they are a list that starts
\* with an object.
ImagesReadable(product) ==
    LET images == Get(product, "images", Null)
    IN  \/ images \in {Null, Bool(FALSE), Number(0), Cents(0), Text(""), Array(<<>>),
                       Object(<<>>)}
        \/ images.json = "list" /\ images.items[1].json = "object"

\* An answer 200 with a listing the client can read: the body is a JSON
\* object whose "products" is missing, an empty string, an empty object, or a
\* list of objects with images that can be read.
Listing(resp) ==
    /\ resp.net = "ok" /\ resp.status = 200 /\ resp.body = "json"
    /\ resp.json.json = "object"
    /\ LET products == Get(resp.json, "products", Array(<<>>))
       IN  \/ products \in {Text(""), Object(<<>>)}
           \/ /\ products.json = "list"
              /\ \A i \in 1..Len(products.items) :
                    /\ products.items[i].json = "object"
                    /\ ImagesReadable(products.items[i])

\* The first search request was answered 401 and the retry 200.
Recovered(p) ==
    /\ Finished(p, "search_products")
    /\ LET sa == Answers(http[p], "search")
       IN  /\ Len(sa) = 2 /\ sa[1].resp = Status(401)
           /\ sa[2].resp.net = "ok" /\ sa[2].resp.status = 200

\* The case of C8 as amended: the retry was answered 200 with a listing.
SearchRecoveryCase(p) ==
    Recovered(p) /\ Listing(Answers(http[p], "search")[2].resp)

\* C8 as stated: a search whose first request is answered 401 and whose retry
\* is answered 200 succeeds with exactly 2 anonymous-token fetches and exactly
\* 2 search requests, and the cached token is the newly fetched one.
C8_AsStated ==
    \A p \in Procs :
        Recovered(p) =>
            LET aa == Answers(http[p], "auth")
            IN  /\ out[p].ok
                /\ Len(Requests(http[p], "search")) = 2
                /\ Len(Requests(http[p], "auth")) = 2
                /\ Len(aa) >= 1
                /\ client.anonymous_token = aa[Len(aa)].resp.json.access_token

\* C8 as amended: a search whose first request is answered 401 and whose retry
\* is answered 200 sends exactly 2 search requests; it fetches an anonymous
\* token twice when none was cached at the start and once (after the 401
\* only) when the first request used a cached token; the cached token
\* afterwards is the one fetched last, which the retry carried; and the search
\* succeeds when the 200 holds a listing the client can read.
C8_SearchRecovery ==
    \A p \in Procs :
        Recovered(p) =>
            LET aa == Answers(http[p], "auth")
                sr == Requests(http[p], "search")
            IN  /\ Len(sr) = 2
                /\ Len(Requests(http[p], "auth")) =
                       IF http[p][1].ev = "search" THEN 1 ELSE 2
                /\ Len(aa) >= 1
                /\ client.anonymous_token = aa[Len(aa)].resp.json.access_token
                /\ sr[2].bearer = aa[Len(aa)].resp.json.access_token
                /\ SearchRecoveryCase(p) => out[p].ok

\* The search of the test: the first request carried a cached token, one
\* token was fetched after the 401, and the retry returned the two products.
C8_Witness ==
    \E p \in Procs :
        /\ SearchRecoveryCase(p)
        /\ http[p][1].ev = "search"
        /\ Len(Requests(http[p], "auth")) = 1
        /\ out[p].ok
        /\ loc[p].result = <<Number(12345), Number(67890)>>

\* C9: whatever the retailer answers, one search call sends at most two search
\* requests; when both are answered 401 the call ends with an error.
C9_SearchRetryBound ==
    \A p \in Procs :
        LET sa == Answers(http[p], "search")
        IN  /\ Len(Requests(http[p], "search")) <= 2
            /\ (Len(sa) >= 2 /\ sa[1].resp = Status(401) /\ sa[2].resp = Status(401)) =>
                   /\ pc[p] = "done"
                   /\ out[p].raised /\ ~out[p].ok
                   /\ Len(Requests(http[p], "search")) = 2

C9_Witness ==
    \E p \in Procs :
        LET sa == Answers(http[p], "search")
        IN  /\ Finished(p, "search_products")
            /\ Len(sa) = 2 /\ sa[1].resp = Status(401) /\ sa[2].resp = Status(401)
            /\ out[p].raised

(***************************************************************************)
(* Claims about the mapping store.                                         *)
(***************************************************************************)
RowsOf(rows, key) == Matching(rows, key[1], key[2])

UniqueKeys(rows) == \A key \in Keys : Cardinality(RowsOf(rows, key)) <= 1

\* What a save of `form` has to turn the table `old` into.
SavedInPlace(old, new, form) ==
    LET m == Matching(old, form.recipe_slug, form.ingredient_reference_id)
    IN  IF m = {}
        THEN /\ Len(new) = Len(old) + 1
             /\ \A j \in 1..Len(old) : new[j] = old[j]
             /\ new[Len(new)] = form
        ELSE /\ Len(new) = Len(old)
             /\ \E i \in m :
                   /\ new[i] = form
                   /\ \A j \in 1..Len(old) : j # i => new[j] = old[j]

\* C2: with saves and deletes handled one at a time the table never holds two
\* rows for one (recipe_slug, ingredient_reference_id); a save on a key that has
\* a row leaves the number and order of rows alone and makes every column of
\* that row equal to the form's value, and a save on a key without a row adds
\* exactly one row, equal to the form.
C2_UpsertUnique ==
    /\ [](UniqueKeys(store))
    /\ [][\A p \in Serial : \A form \in StoreForms :
             SaveMapping(p, form) => SavedInPlace(store, store', form)]_vars

\* Saves on absent keys and on held keys have both happened: the table holds a
\* row for each of the three keys, the key saved first was not the first key of
\* the forms, and the rows differ in status and quantity.
C2_Witness ==
    /\ Len(store) = 3
    /\ UniqueKeys(store)
    /\ store[1].recipe_slug = "r2" /\ store[1].status = "skipped"
    /\ store[2].status = "mapped" /\ store[2].ah_quantity = MaxQty
    /\ store[3].status = "unmapped"
    /\ out[1].ok

\* C3 as stated: also when two saves of one key interleave, the table ends with
\* at most one row for the key.
C3_UniqueUnderConcurrency ==
    (\A p \in Procs : pc[p] = "idle") =>
        \A key \in Keys : Cardinality(RowsOf(store, key)) <= 1

(***************************************************************************)
(* Claims about the cart fill.                                             *)
(***************************************************************************)
\* The rows that contribute to a fill: mapped, with a product id, and of a
\* recipe the answered meal plan names.
Contributing(rows, resp) ==
    {i \in 1..Len(rows) : /\ rows[i].recipe_slug \in RecipeSlugs(resp.items)
                          /\ rows[i].status = "mapped"
                          /\ rows[i].ah_product_id # None}

RECURSIVE SumQuantity(_, _)
SumQuantity(rows, idx) ==
    IF idx = {} THEN 0
    ELSE LET i == CHOOSE j \in idx : TRUE
         IN  rows[i].ah_quantity + SumQuantity(rows, idx \ {i})

RECURSIVE TotalQuantity(_, _)
TotalQuantity(lines, k) ==
    IF k = 0 THEN 0 ELSE lines[k].quantity + TotalQuantity(lines, k - 1)

\* The lines of the submitted list are exactly the distinct product ids of the
\* contributing rows, one line each, each with the summed quantity.
OneLinePerProduct(lines, rows, idx) ==
    LET pids == {rows[i].ah_product_id[1] : i \in idx}
    IN  /\ Len(lines) = Cardinality(pids)
        /\ TotalQuantity(lines, Len(lines)) = SumQuantity(rows, idx)
        /\ \A pid \in pids :
              \E k \in 1..Len(lines) :
                  /\ lines[k].productId = pid
                  /\ lines[k].quantity =
                        SumQuantity(rows, {i \in idx : rows[i].ah_product_id[1] = pid})

\* C1: whatever mapped rows the planned recipes have, the list fill_cart submits
\* has exactly one line per distinct product id, its quantity the sum of
\* ah_quantity over the contributing rows, and a successful fill reports the
\* number of distinct product ids as items_added.
C1_Aggregation ==
    \A p \in Procs :
        loc[p].call = "fill_cart" =>
            LET cr == Requests(http[p], "cart")
                pa == Answers(http[p], "mealplans")
                idx == Contributing(store, pa[1].resp)
            IN  /\ \A k \in 1..Len(cr) : OneLinePerProduct(cr[k].items, store, idx)
                /\ (pc[p] = "done" /\ out[p].ok) =>
                      /\ Len(cr) >= 1
                      /\ out[p].items_added =
                            Cardinality({store[i].ah_product_id[1] : i \in idx})

\* The case of the specification's example: onion 2 and onion 1 and milk 1 over
\* two planned recipes become two lines, onion 3 and milk 1.
C1_Witness ==
    \E p \in Procs :
        /\ pc[p] = "done" /\ loc[p].call = "fill_cart" /\ out[p].ok
        /\ out[p].items_added = 2
        /\ Len(store) = 3
        /\ Cardinality(Contributing(store, Answers(http[p], "mealplans")[1].resp)) = 3
        /\ \E k \in 1..2 :
              /\ Requests(http[p], "cart")[1].items[k].productId = 100
              /\ Requests(http[p], "cart")[1].items[k].quantity = 3

\* C10 as stated: a fill with an empty stored access token and a stored refresh
\* token, planned recipes and mapped rows, goes through one refresh cycle and
\* does not end with the no-token error.
C10_RefreshOnlyFill ==
    \A p \in Procs :
        ( /\ Finished(p, "fill_cart")
          /\ loc[p].cart # <<>>
          /\ loc[p].access_token = "" /\ loc[p].refresh_token # "" ) =>
            /\ out[p].error # MsgNoToken
            /\ Len(Requests(http[p], "cart")) >= 1
            /\ Len(Requests(http[p], "refresh")) = 1

(***************************************************************************)
(* Further claims about the cart fill and the mapping store.               *)
(***************************************************************************)
\* C11 as stated: whatever the meal-plan gateway, the cart endpoint and the
\* refresh endpoint answer, a cart fill ends in a returned outcome, ok=true or
\* ok=false with a message, and no exception leaves the handler.
C11_NoCrash ==
    \A p \in Procs :
        Finished(p, "fill_cart") =>
            /\ ~out[p].raised
            /\ out[p].ok \/ out[p].error # ""

\* C12: a delete always returns success; on a key without a row it leaves the
\* table as it is, on a key with a row it removes that row and no other, and
\* the delete repeated on the table it leaves changes nothing.
C12_IdempotentDelete ==
    [][\A p \in Serial : \A key \in Keys :
          DeleteMapping(p, key[1], key[2]) =>
              /\ out'[p] = Returns("", <<>>)
              /\ RowsOf(store, key) = {} => store' = store
              /\ store' = SelectSeq(store, LAMBDA r :
                              <<r.recipe_slug, r.ingredient_reference_id>> # key)
              /\ Len(store') >= Len(store) - 1
              /\ DeleteResult(store', key[1], key[2]) = store'
              /\ Cardinality(RowsOf(store', key)) <= 1]_vars

\* A delete has answered success and the table is empty again (a save never
\* leaves it empty).
C12_Witness ==
    /\ store = <<>>
    /\ out[1] = Returns("", <<>>)
    /\ pc[1] = "idle"

\* C13 as stated: every row whose status is not mapped has a null product id
\* and null snapshot fields.
C13_SnapshotOnlyWhenMapped ==
    \A i \in 1..Len(store) :
        store[i].status # "mapped" =>
            /\ store[i].ah_product_id = None
            /\ store[i].ah_product_name = None
            /\ store[i].ah_product_image_url = None
            /\ store[i].ah_product_unit_size = None
            /\ store[i].ah_product_price = None

(***************************************************************************)
(* Claims about the suggestion engine, checked under SpecSuggest.          *)
(***************************************************************************)
\* The entry e shows the row m.
EntryOf(m, e) ==
    /\ e.status = m.status
    /\ e.recipe_name = m.recipe_name
    /\ e.ingredient_display = m.ingredient_display
    /\ e.ah_product_id = m.ah_product_id
    /\ e.ah_product_name = m.ah_product_name
    /\ e.ah_product_image_url = m.ah_product_image_url
    /\ e.ah_product_unit_size = m.ah_product_unit_size
    /\ e.ah_product_price = m.ah_product_price

\* The number of keywords of the query that the row's display contains.
RowMatches(m, display) == MatchedKeywords(Keywords(display), m.ingredient_display)

\* C14: no suggestion shows a row of the query's own recipe, and every
\* suggestion shows a row of another recipe whose status is mapped or skipped.
C14_SelfExclusion ==
    \A p \in Procs :
        Finished(p, "mapping_suggestions") =>
            \A k \in 1..Len(loc[p].result) :
                /\ \A i \in 1..Len(store) :
                      store[i].recipe_slug = loc[p].args[2] =>
                          ~EntryOf(store[i], loc[p].result[k])
                /\ \E i \in 1..Len(store) :
                      /\ EntryOf(store[i], loc[p].result[k])
                      /\ store[i].recipe_slug # loc[p].args[2]
                      /\ store[i].status \in {"mapped", "skipped"}

\* The table holds a row of the query's recipe that contains every keyword,
\* and suggestions were returned.
C14_Witness ==
    \E p \in Procs :
        /\ Finished(p, "mapping_suggestions")
        /\ Len(loc[p].result) >= 2
        /\ \E i \in 1..Len(store) :
              /\ store[i].recipe_slug = loc[p].args[2]
              /\ store[i].status = "mapped"
              /\ RowMatches(store[i], loc[p].args[1]) = Len(Keywords(loc[p].args[1]))

\* a and b are the same character, or the capital and the small form of one
\* letter of the Latin alphabet, accented or not (A-Z, U+00C0-U+00DE).
SameLetter(a, b) ==
    LET capital(c) == (65 <= c /\ c <= 90) \/ (192 <= c /\ c <= 222 /\ c # 215)
    IN  a = b \/ (capital(a) /\ b = a + 32) \/ (capital(b) /\ a = b + 32)

\* The keyword occurs in the text at position i, letter for letter.
OccursAt(kw, text, i) == \A k \in 1..Len(kw) : text[i + k - 1] = kw[k]

\* The keyword occurs in the text when the case of the letters is ignored.
Occurs(kw, text) ==
    \E i \in 1..(Len(text) - Len(kw) + 1) :
        \A k \in 1..Len(kw) : SameLetter(text[i + k - 1], kw[k])

\* C15: the score of every suggestion is the number of the query's keywords
\* that occur in its display when case is ignored, over the number of
\* keywords; it is at least one half and at least one keyword matches.
C15_Threshold ==
    \A p \in Procs :
        Finished(p, "mapping_suggestions") =>
            LET keywords == Keywords(loc[p].args[1])
            IN  \A k \in 1..Len(loc[p].result) :
                    LET e == loc[p].result[k]
                    IN  /\ e.score.den = Len(keywords)
                        /\ e.score.num =
                              Cardinality({j \in 1..Len(keywords) :
                                  Occurs(keywords[j], Spelling[e.ingredient_display])})
                        /\ e.score.num >= 1
                        /\ 2 * e.score.num >= e.score.den

\* Of three keywords a returned row matches two, a candidate row that matches
\* one is not returned, and a returned row matches a keyword that its display
\* spells in another case only.
C15_Witness ==
    \E p \in Procs :
        /\ Finished(p, "mapping_suggestions")
        /\ Len(Keywords(loc[p].args[1])) = 3
        /\ \E k \in 1..Len(loc[p].result) : loc[p].result[k].score.num = 2
        /\ \E k \in 1..Len(loc[p].result) :
              LET text == Spelling[loc[p].result[k].ingredient_display]
                  keywords == Keywords(loc[p].args[1])
              IN  /\ loc[p].result[k].score.num = 3
                  /\ \E j \in 1..3 :
                        \A i \in 1..(Len(text) - Len(keywords[j]) + 1) :
                            ~OccursAt(keywords[j], text, i)
        /\ \E i \in 1..Len(store) :
              /\ store[i].recipe_slug # loc[p].args[2]
              /\ store[i].status = "mapped"
              /\ RowMatches(store[i], loc[p].args[1]) = 1
              /\ \A k \in 1..Len(loc[p].result) : ~EntryOf(store[i], loc[p].result[k])

\* The rows that compete for the place of entry e: the candidates with e's
\* status and, for a mapped entry, e's product id, that reach the threshold
\* on the keywords kws.
Rivals(rows, e, kws, slug) ==
    {i \in 1..Len(rows) :
        /\ rows[i].recipe_slug # slug
        /\ rows[i].status = e.status
        /\ e.status = "mapped" => rows[i].ah_product_id = e.ah_product_id
        /\ MatchedKeywords(kws, rows[i].ingredient_display) >= 1
        /\ 2 * MatchedKeywords(kws, rows[i].ingredient_display) >= Len(kws)}

\* C16: the suggestions hold at most one mapped entry per product id and at
\* most one skipped entry, and each entry shows the first row in table order
\* among the rows that compete for its place, with that row's score.
C16_Dedup ==
    \A p \in Procs :
        Finished(p, "mapping_suggestions") =>
            LET res == loc[p].result
                kws == Keywords(loc[p].args[1])
            IN  /\ \A k, l \in 1..Len(res) :
                      k # l =>
                          /\ ~(res[k].status = "skipped" /\ res[l].status = "skipped")
                          /\ ~( /\ res[k].status = "mapped" /\ res[l].status = "mapped"
                                /\ res[k].ah_product_id = res[l].ah_product_id )
                /\ \A k \in 1..Len(res) :
                      LET rivals == Rivals(store, res[k], kws, loc[p].args[2])
                      IN  /\ rivals # {}
                          /\ LET first == CHOOSE i \in rivals : \A j \in rivals : i <= j
                             IN  /\ EntryOf(store[first], res[k])
                                 /\ res[k].score.num =
                                       MatchedKeywords(kws, store[first].ingredient_display)

\* An entry for a product is returned with score 1/2 although a later row of
\* the same product matches both keywords.
C16_Witness ==
    \E p \in Procs :
        /\ Finished(p, "mapping_suggestions")
        /\ \E k \in 1..Len(loc[p].result) :
              LET e == loc[p].result[k]
                  rivals == Rivals(store, e, Keywords(loc[p].args[1]), loc[p].args[2])
              IN  /\ e.status = "mapped"
                  /\ e.score.num = 1 /\ e.score.den = 2
                  /\ \E i \in rivals : RowMatches(store[i], loc[p].args[1]) = 2

\* a's score is above b's, or they are equal and a is mapped while b is not.
RanksAbove(a, b) ==
    \/ a.score.num * b.score.den > b.score.num * a.score.den
    \/ /\ a.score.num * b.score.den = b.score.num * a.score.den
       /\ a.status = "mapped" /\ b.status # "mapped"

\* C17: the suggestions are in descending order of score, mapped before
\* skipped among equal scores; there are at most TopN of them, as many as
\* were accepted up to TopN, and no accepted entry left out ranks above a
\* returned one.
C17_Ranking ==
    \A p \in Procs :
        Finished(p, "mapping_suggestions") =>
            LET res == loc[p].result
                all == Accepted(store, loc[p].args[1], loc[p].args[2])
            IN  /\ \A k, l \in 1..Len(res) : k < l => ~RanksAbove(res[l], res[k])
                /\ Len(res) <= TopN
                /\ Len(res) = IF Len(all) < TopN THEN Len(all) ELSE TopN
                /\ \A k \in 1..Len(res) : \E i \in 1..Len(all) : all[i] = res[k]
                /\ \A i \in 1..Len(all) :
                      (\A k \in 1..Len(res) : res[k] # all[i]) =>
                          \A k \in 1..Len(res) : ~RanksAbove(all[i], res[k])

\* More entries were accepted than are returned, and the returned ones differ
\* in score and hold a skipped entry ranked above a mapped one of lower score.
C17_Witness ==
    \E p \in Procs :
        /\ Finished(p, "mapping_suggestions")
        /\ Len(loc[p].result) = TopN
        /\ Len(Accepted(store, loc[p].args[1], loc[p].args[2])) > TopN
        /\ \E k, l \in 1..TopN :
              /\ k < l
              /\ loc[p].result[k].status = "skipped"
              /\ loc[p].result[l].status = "mapped"
              /\ loc[p].result[k].score.num > loc[p].result[l].score.num
        /\ \E k \in 1..(TopN - 1) :
              /\ loc[p].result[k].status = "mapped"
              /\ loc[p].result[k + 1].status = "skipped"
              /\ loc[p].result[k].score = loc[p].result[k + 1].score

(***************************************************************************)
(* Claims about the meal-plan page, checked under SpecPage.                *)
(***************************************************************************)
\* Every ingredient line of the recipe has a row that is mapped or skipped.
AllLinesDecided(rows, slug) ==
    \A key \in Keys :
        key[1] = slug =>
            \E i \in 1..Len(rows) :
                /\ rows[i].recipe_slug = key[1]
                /\ rows[i].ingredient_reference_id = key[2]
                /\ rows[i].status \in {"mapped", "skipped"}

\* C18 as stated: a day with recipes is reported ready exactly when every
\* ingredient line of each of its recipes is mapped or skipped, and as needing
\* mapping otherwise.
C18_ReadyIffAllDecided ==
    \A p \in Procs :
        (Finished(p, "mealplan_page") /\ ~out[p].raised) =>
            \A i \in 1..PageDays :
                LET day == loc[p].result.weekdays[i]
                IN  Len(day.recipes) > 0 =>
                        /\ day.status \in {"ready", "needs_mapping"}
                        /\ day.status = "ready" <=>
                              \A k \in 1..Len(day.recipes) :
                                  AllLinesDecided(store, day.recipes[k].slug)

(***************************************************************************)
(* Claims about the meal-plan gateway client, checked under SpecGateway.   *)
(***************************************************************************)
\* C20: whatever the shape of the gateway's answer (a bare list, an envelope
\* object, any other JSON object), a get_mealplans that returns hands its
\* caller a list of entries; for the list and the envelope it is the list of
\* the entries answered.
C20_AlwaysAList ==
    \A p \in Procs :
        (Finished(p, "get_mealplans") /\ ~out[p].raised) =>
            /\ loc[p].result.kind = "list"
            /\ Answers(http[p], "mealplans")[1].resp.shape \in {"list", "envelope"} =>
                  loc[p].result.plans = Answers(http[p], "mealplans")[1].resp.items

(***************************************************************************)
(* Claims about concurrent cart fills, checked under SpecRace and          *)
(* SpecOverlap.                                                            *)
(***************************************************************************)
\* The pair a request's own refresh put into memory, if it refreshed.
Refreshed(p) == Requests(http[p], "assign")

\* The pair the client holds in memory, and the pair the token store holds.
HeldPair(cl) == <<cl.user_token, cl.user_refresh_token>>

KeptPair(st) ==
    <<Some(GetSetting(st, "ah_user_token")), Some(GetSetting(st, "ah_refresh_token"))>>

C28_OwnCallback ==
    \A p \in Procs :
        loc[p].call = "fill_cart" =>
            \A k \in 1..Len(CallbackCalls(http[p])) :
                CallbackCalls(http[p])[k].fn = Callback("save", p)

(***************************************************************************)
(* Further claims about the cart fill, checked under SpecFill.             *)
(***************************************************************************)
\* The step in which request p gets the meal plan's answer and ends.
EndsOnPlans(p) == pc[p] = "plans" /\ pc'[p] = "done"

\* The answer of the gateway that request p has in its log after the step.
PlansAnswered(p) == Answers(http[p], "mealplans")[1].resp

\* C21: a cart fill whose meal plan (a list, an envelope or the object {})
\* names no recipe ends with the message
\* of "no recipes"; one with recipes but no mapped ingredient with the message
\* of "no mapped ingredients"; one with both but neither token stored with the
\* message of "no token".  Each of the three is an ok=false outcome and no
\* exception, sends nothing to the retailer, and leaves the token store and
\* the tokens and callback in memory as they were.
C21_Preconditions ==
    [][\A p \in Procs :
          ( /\ EndsOnPlans(p)
            /\ ~GetMealplans(PlansAnswered(p)').raised
            /\ ~LoopRaises(GetMealplans(PlansAnswered(p)')) ) =>
              LET resp == PlansAnswered(p)'
                  noRecipes == \A i \in 1..Len(resp.items) : SlugOf(resp.items[i]) = ""
                  noMapped == Contributing(store, resp) = {}
                  noToken == GetSetting(settings, "ah_user_token") = ""
                             /\ GetSetting(settings, "ah_refresh_token") = ""
                  message == IF noRecipes THEN MsgNoRecipes
                             ELSE IF noMapped THEN MsgNoMapped ELSE MsgNoToken
              IN  (noRecipes \/ noMapped \/ noToken) =>
                      /\ out'[p] = [raised |-> FALSE, ok |-> FALSE, error |-> message,
                                    items_added |-> 0]
                      /\ Requests(http'[p], "cart") = <<>>
                      /\ Requests(http'[p], "refresh") = <<>>
                      /\ settings' = settings
                      /\ client' = client]_vars

\* A fill found recipes and mapped ingredients but an empty token store and
\* ended with the no-token message, nothing sent; the pair an earlier fill
\* put into memory is still there.
C21_Witness ==
    \E p \in Procs :
        /\ Finished(p, "fill_cart")
        /\ out[p] = [raised |-> FALSE, ok |-> FALSE, error |-> MsgNoToken, items_added |-> 0]
        /\ loc[p].cart # <<>>
        /\ loc[p].access_token = "" /\ loc[p].refresh_token = ""
        /\ Requests(http[p], "cart") = <<>>
        /\ GetSetting(settings, "ah_user_token") = ""
        /\ GetSetting(settings, "ah_refresh_token") = ""
        /\ client.user_token = Some("A0")

\* C26: the step that ends a refresh attempt with a failure (the call then
\* ends with the "token expired" error) leaves the access token and the
\* refresh token in memory as they were; the step that ends it with success
\* puts the answered access and refresh token into memory together.
C26_AtomicPair ==
    [][\A p \in Procs :
          (pc[p] = "refresh" /\ pc'[p] # "refresh") =>
              IF pc'[p] = "retry"
              THEN LET body == Last(Answers(http'[p], "refresh")).resp.json
                   IN  /\ client'.user_token = body.access_token
                       /\ client'.user_refresh_token = body.refresh_token
              ELSE /\ out'[p].error = MsgExpired
                   /\ client'.user_token = client.user_token
                   /\ client'.user_refresh_token = client.user_refresh_token]_vars

\* C27: when cart fills run one at a time, at the end of every cart fill that
\* has handed its tokens to the client, the access and refresh token in the
\* client's memory are the ones the token store holds.
C27_StoreAgreesWithMemory ==
    \A p \in Procs :
        (Finished(p, "fill_cart") /\ loc[p].caller = "fill_cart") =>
            /\ client.user_token = Some(GetSetting(settings, "ah_user_token"))
            /\ client.user_refresh_token = Some(GetSetting(settings, "ah_refresh_token"))

(***************************************************************************)
(* Further claims about the retailer client, checked under SpecClient.     *)
(***************************************************************************)
\* The places in a log where an event of one kind stands, and where the
\* answer to a request of one kind stands.
Places(log, kind) == {k \in 1..Len(log) : log[k].ev = kind}

AnswerPlaces(log, to) == {k \in 1..Len(log) : log[k].ev = "answer" /\ log[k].to = to}

\* C22: a cart request is retried only after the refresh endpoint handed
\* out a pair; in between, in this order, the tokens in memory are set to
\* that pair and then the registered callback, if any, is called with it; the
\* retry carries an access token a refresh has handed out, never the token
\* of the token store that the cart fills started from.  Checked under
\* SpecRace, where another cart fill can write the tokens between any two
\* of these steps.
C22_RefreshOrdering ==
    \A p \in Procs :
        Len(Requests(http[p], "cart")) = 2 =>
            LET log == http[p]
                first == CHOOSE k \in Places(log, "cart") :
                            \A j \in Places(log, "cart") : k <= j
                retry == CHOOSE k \in Places(log, "cart") :
                            \A j \in Places(log, "cart") : j <= k
                assigns == Places(log, "assign")
                calls == Places(log, "callback")
                answers == AnswerPlaces(log, "refresh")
            IN  /\ Cardinality(answers) = 1 /\ Cardinality(assigns) = 1
                /\ Cardinality(calls) = 1
                /\ \A a \in answers, m \in assigns :
                      /\ HandsOutPair(log[a].resp)
                      /\ first < a /\ a < m /\ m < retry
                      /\ Some(log[m].access) = log[a].resp.json.access_token
                      /\ Some(log[m].refresh) = log[a].resp.json.refresh_token
                      /\ \A c \in calls :
                            /\ m < c /\ c < retry
                            /\ log[c].access = log[m].access
                            /\ log[c].refresh = log[m].refresh
                /\ log[retry].bearer \in {Some(t) : t \in FreshAccess}
                /\ log[retry].bearer # Some("A0")

\* A cart fill whose first cart request carried the stored token has been
\* answered 401, has refreshed, its callback has been called, and its retry
\* carries the access token its refresh handed out.
C22_Witness ==
    \E p \in Procs :
        /\ loc[p].call = "fill_cart"
        /\ Len(Requests(http[p], "cart")) = 2
        /\ Requests(http[p], "cart")[1].bearer = Some("A0")
        /\ Len(Refreshed(p)) = 1
        /\ Len(CallbackCalls(http[p])) = 1
        /\ Requests(http[p], "cart")[2].bearer = Some(Refreshed(p)[1].access)
        /\ Requests(http[p], "cart")[2].bearer # Requests(http[p], "cart")[1].bearer

\* Request p takes a step of a catalogue search.
SearchStep(p) ==
    /\ pc'[p] # pc[p]
    /\ loc[p].call = "search_products" \/ loc'[p].call = "search_products"

\* C23: a search that finds an anonymous token cached sends its search
\* request with that token and asks the identity endpoint nothing; one that
\* finds none asks the identity endpoint, and the token answered is cached and
\* carried by the search request that follows.  The cached token changes only
\* in those fetches and is cleared only by the step that receives a 401 for a
\* search request.  No step of a search changes the user's access token,
\* refresh token or callback, and no search request carries the user's token.
C23_AnonymousCache ==
    [][/\ \A p \in Procs :
            /\ (pc[p] = "idle" /\ SearchStep(p)) =>
                  /\ client' = client
                  /\ http'[p] = IF Truthy(client.anonymous_token)
                                THEN <<SearchRequest(client.anonymous_token)>>
                                ELSE <<AuthRequest>>
            /\ (pc[p] \in {"auth1", "auth2"} /\ pc'[p] \in {"send1", "send2"}) =>
                  LET n == Len(http'[p])
                  IN  /\ http'[p][n].ev = "answer" /\ http'[p][n].to = "auth"
                      /\ client'.anonymous_token = http'[p][n].resp.json.access_token
                      /\ loc'[p].bearer = http'[p][n].resp.json.access_token
            /\ (pc[p] \in {"send1", "send2"} /\ pc'[p] \in {"search1", "search2"}) =>
                  /\ client' = client
                  /\ http'[p] = Append(http[p], SearchRequest(loc[p].bearer))
            /\ SearchStep(p) =>
                  /\ client'.user_token = client.user_token
                  /\ client'.user_refresh_token = client.user_refresh_token
                  /\ client'.on_tokens_updated = client.on_tokens_updated
                  /\ \A k \in Places(http'[p], "search") :
                        http'[p][k].bearer \in {Some(t) : t \in AnonTokens}
       /\ client'.anonymous_token # client.anonymous_token =>
             \E p \in Procs :
                 \/ /\ pc[p] = "search1" /\ pc'[p] = "auth2"
                    /\ http'[p][Len(http'[p]) - 1] = Answer("search", Status(401))
                    /\ client'.anonymous_token = None
                 \/ /\ pc[p] \in {"auth1", "auth2"} /\ pc'[p] \in {"send1", "send2"}
                    /\ ~Truthy(client.anonymous_token)
                    /\ client'.anonymous_token # None]_vars

\* A search found the token of an earlier search cached and sent its request
\* with it at once, while the client holds a user token pair.
C23_Witness ==
    \E p \in Procs :
        /\ pc[p] = "search1" /\ loc[p].call = "search_products"
        /\ http[p] = <<SearchRequest(Some("T1"))>>
        /\ client.anonymous_token = Some("T1")
        /\ client.user_token = Some("A0") /\ client.user_refresh_token = Some("R0")

(***************************************************************************)
(* Claims about linking the retailer account, checked under SpecLinked.    *)
(***************************************************************************)
\* The pair the token store holds.
StoredPair(st) == <<GetSetting(st, "ah_user_token"), GetSetting(st, "ah_refresh_token")>>

\* C24: the step in which a code exchange succeeds leaves exactly the
\* answered access and refresh token in the token store (and the client's
\* memory as it was); the token store changes in no step other than a code
\* exchange's answer and a refresh; and the step in which a cart fill hands
\* its tokens to the client installs the stored pair and sends the cart
\* request with the stored access token.  So the cart fill that follows a
\* successful exchange installs and sends the exchanged access token.
C24_InitialAcquisition ==
    [][/\ \A p \in Procs :
            (pc[p] = "exchange" /\ pc'[p] = "health" /\ loc'[p].result.ah_login_success) =>
                LET body == Answers(http'[p], "exchange")[1].resp.json
                IN  /\ body.access_token # None /\ body.refresh_token # None
                    /\ StoredPair(settings') = <<body.access_token[1], body.refresh_token[1]>>
                    /\ client' = client
       /\ settings' # settings =>
             \E p \in Procs : /\ pc[p] \in {"exchange", "refresh"}
                              /\ pc'[p] # pc[p]
       /\ \A q \in Procs :
            (pc[q] = "plans" /\ pc'[q] = "cart1") =>
                /\ settings' = settings
                /\ client'.user_token = Some(StoredPair(settings)[1])
                /\ client'.user_refresh_token = Some(StoredPair(settings)[2])
                /\ Last(http'[q]).ev = "cart"
                /\ Last(http'[q]).bearer = Some(StoredPair(settings)[1])]_vars

\* The account was linked with the pair (AX, RX); the cart fill after it has
\* installed that pair and waits for the answer to its cart request, which
\* carries AX.
C24_Witness ==
    \E p, q \in Procs :
        /\ Finished(p, "ah_code_exchange") /\ out[p].ok
        /\ Answers(http[p], "exchange")[1].resp.json = RefreshBody(Some("AX"), Some("RX"))
        /\ StoredPair(settings) = <<"AX", "RX">>
        /\ pc[q] = "cart1" /\ loc[q].call = "fill_cart"
        /\ client.user_token = Some("AX") /\ client.user_refresh_token = Some("RX")
        /\ Last(http[q]).ev = "cart" /\ Last(http[q]).bearer = Some("AX")

(***************************************************************************)
(* Claims about the week asked for, checked under SpecWeek.                *)
(***************************************************************************)
\* The Monday the specification means: today when today is a Monday, else
\* the first Monday after today.
UpcomingMonday(today) ==
    CHOOSE d \in today..(today + DaysPerWeek) :
        /\ d % 7 = 0
        /\ \A e \in today..(d - 1) : e % 7 # 0

\* The meal-plan request in the log of a request in progress.
WeekAsked(p) == Requests(http[p], "mealplans")[1]

\* C25: on every weekday the meal-plan page and the cart fill ask the
\* gateway for the same dates: from today when today is a Monday and else
\* from the first Monday after today, to the Friday four days later.
C25_SameWeek ==
    /\ \A p \in Procs :
          loc[p].call \in {"mealplan_page", "fill_cart"} =>
              LET today == loc[p].args[1]
              IN  /\ WeekAsked(p).start_date = IsoDate(UpcomingMonday(today))
                  /\ WeekAsked(p).end_date = IsoDate(UpcomingMonday(today) + 4)
    /\ \A p, q \in Procs :
          ( /\ loc[p].call = "mealplan_page" /\ loc[q].call = "fill_cart"
            /\ loc[p].args[1] = loc[q].args[1] ) =>
              /\ WeekAsked(p).start_date = WeekAsked(q).start_date
              /\ WeekAsked(p).end_date = WeekAsked(q).end_date

\* On a Wednesday (day 2) the page and a cart fill are both in progress and
\* both have asked for day 7 to day 11.
C25_Witness ==
    \E p, q \in Procs :
        /\ loc[p].call = "mealplan_page" /\ loc[q].call = "fill_cart"
        /\ loc[p].args = <<2>> /\ loc[q].args = <<2>>
        /\ WeekAsked(p).start_date = IsoDate(7) /\ WeekAsked(p).end_date = IsoDate(11)
        /\ WeekAsked(q).start_date = IsoDate(7) /\ WeekAsked(q).end_date = IsoDate(11)

(***************************************************************************)
(* Claims about the page as a preview of the fill, checked under           *)
(* SpecPreview.                                                            *)
(***************************************************************************)
\* The product ids in the cart requests of a log.
Submitted(log) ==
    UNION {{Requests(log, "cart")[k].items[i].productId :
                i \in 1..Len(Requests(log, "cart")[k].items)} :
           k \in 1..Len(Requests(log, "cart"))}

\* The product ids of the cart items the page lists.
Listed(context) ==
    {context.cart_items[k].ah_product_id[1] : k \in 1..Len(context.cart_items)}

\* C29: when the page and a cart fill have got the same answer from the
\* gateway over the same table, the product ids the fill has submitted are
\* the product ids of the cart items the page lists.
C29_PreviewEqualsSubmission ==
    \A p, q \in Procs :
        ( /\ Finished(p, "mealplan_page") /\ ~out[p].raised
          /\ loc[q].call = "fill_cart" /\ pc[q] \in {"cart1", "done"} /\ ~out[q].raised
          /\ Answers(http[p], "mealplans")[1].resp = Answers(http[q], "mealplans")[1].resp ) =>
            Submitted(http[q]) = Listed(loc[p].result)

(***************************************************************************)
(* The keys of the deduplication, checked under SpecSuggest.               *)
(***************************************************************************)
\* The row is a candidate of the query that reaches the threshold.
Qualifies(m, display, slug) ==
    /\ m.recipe_slug # slug
    /\ m.status \in {"mapped", "skipped"}
    /\ RowMatches(m, display) >= 1
    /\ 2 * RowMatches(m, display) >= Len(Keywords(display))

\* The row is shown by one of the accepted entries.
IsAccepted(m, rows, display, slug) ==
    \E k \in 1..Len(Accepted(rows, display, slug)) :
        EntryOf(m, Accepted(rows, display, slug)[k])

\* C30: a candidate that reaches the threshold and is not accepted has an
\* accepted candidate before it in the table with its own status and, when
\* it is mapped, its own product id: a skipped candidate is suppressed only
\* by a skipped one and a mapped candidate only by a mapped one of the same
\* product.
C30_KeysDoNotCollide ==
    \A p \in Procs :
        Finished(p, "mapping_suggestions") =>
            LET display == loc[p].args[1]
                slug == loc[p].args[2]
            IN  \A i \in 1..Len(store) :
                    ( /\ Qualifies(store[i], display, slug)
                      /\ ~IsAccepted(store[i], store, display, slug) ) =>
                        \E j \in 1..(i - 1) :
                            /\ Qualifies(store[j], display, slug)
                            /\ IsAccepted(store[j], store, display, slug)
                            /\ store[j].status = store[i].status
                            /\ store[i].status = "mapped" =>
                                  store[j].ah_product_id = store[i].ah_product_id

====
